---- MODULE Spec2Model ----
(***************************************************************************)
(* Multi-source resolution and failover core of OrionTV.                   *)
(*                                                                         *)
(*   detail store  (src/stores/playerStore.ts, useDetailStore):            *)
(*       init / processAndSetResults, markSourceAsFailed,                  *)
(*       measureNetworkSpeed, getNextAvailableSource                       *)
(*   player store  (src/stores/playerStore.ts, usePlayerStore):            *)
(*       _preloadAndTestSource and its probe cache                         *)
(*                                                                         *)
(* Everything runs on one event loop: an action is one synchronous run of  *)
(* a handler between two suspension points (await, timer, network event).  *)
(***************************************************************************)
EXTENDS Integers, Sequences, FiniteSets, TLC

VARIABLES
    searchResults,      \* detail store: SearchResultWithResolution[]
    failedSources,      \* detail store: Set<string>
    speedTests,         \* measureNetworkSpeed calls awaiting their HEAD fetch
    selection,          \* the latest getNextAvailableSource call and its return value
    q,                  \* detail store: the query of the current session
    detail,             \* detail store: the selected search result or null
    loading,            \* detail store
    error,              \* detail store: string | null
    allSourcesLoaded,   \* detail store
    controller,         \* detail store: the AbortController of the latest init, 0 for null
    aborted,            \* the AbortControllers of init whose signal is aborted
    inits,              \* the calls of init: their position and local variables
    _cachedSources,     \* player store: url -> {timestamp, responseTime}
    _preloadTestAbortController,  \* player store: the probe holding it, 0 for undefined
    probes,             \* the calls of _preloadAndTestSource: position, locals, their fetch
    player,             \* player store: the fields that are not variables of their own
    timers,             \* the setTimeout callbacks that are pending
    tasks,              \* the async calls of the player store suspended at an await
    toasts,             \* the Toast.show calls, in order
    saves,              \* the PlayRecordManager.save calls
    videoErrors,        \* the handleVideoError calls
    refs,               \* useVideoHandlers: retryCountRef, lastErrorTimeRef, retryTimerRef
    onErrors,           \* the onError calls, in order
    cache,              \* SearchCacheManager.cache: the entries in insertion order
    cacheOps,           \* the latest two calls of SearchCacheManager and what they returned
    clock               \* Date.now() / performance.now(), in milliseconds

selectVars == <<failedSources, speedTests, selection>>
detailVars == <<searchResults, q, detail, loading, error, allSourcesLoaded, controller,
                aborted, inits>>
probeVars == <<_cachedSources, _preloadTestAbortController, probes, clock>>
cacheVars == <<cache, cacheOps>>
playerVars == <<player, timers, tasks, toasts, saves, videoErrors, refs, onErrors>>
vars == <<searchResults, failedSources, speedTests, selection, q, detail, loading, error,
          allSourcesLoaded, controller, aborted, inits, _cachedSources,
          _preloadTestAbortController, probes, player, timers, tasks, toasts, saves,
          videoErrors, refs, onErrors, cache, cacheOps, clock>>

\* useRef({}), useRef({}) and useRef(null) of useVideoHandlers, and the id the
\* next setTimeout of the hook returns
NoRefs ==
    [retryCountRef |-> <<>>, lastErrorTimeRef |-> <<>>, retryTimerRef |-> 0,
     nextTimeoutId |-> 1]

\* the urls that are probed: a name and an extension
Urls == {<<"u1", ".m3u8">>, <<"u2", ".mp4">>}

\* _cachedSources.get(url) when the map has no entry
NoEntry == [present |-> FALSE, timestamp |-> 0, responseTime |-> 0]

\* an object reference that is null
NullRef == [isNull |-> TRUE]
\* no getNextAvailableSource call has returned since the store last changed
NoCall == [called |-> FALSE]
\* a number field that is undefined (networkSpeed, lastSpeedTest)
Unmeasured == -1
\* q and error when they are null
NoQuery == "null"
NoError == [kind |-> "null"]

\* a number field that is undefined
Undefined == -1
\* a URL field that is undefined
NoUrl == <<>>

\* the player store after create(): the fields that timers, awaits and the
\* probe do not hold
InitialPlayer ==
    [episodes |-> <<>>,
     currentEpisodeIndex |-> -1,
     status |-> NullRef,
     isLoading |-> TRUE,
     showNextEpisodeOverlay |-> FALSE,
     isSeeking |-> FALSE,
     seekPosition |-> <<0, 1>>,
     progressPosition |-> <<0, 1>>,
     initialPosition |-> 0,
     introEndTime |-> Undefined,
     outroStartTime |-> Undefined,
     isUserPaused |-> FALSE,
     _seekTimeout |-> Undefined,
     _isRecordSaveThrottled |-> FALSE,
     _bufferingStartTime |-> Undefined,
     _bufferingTimeout |-> Undefined,
     _bufferingRetryCount |-> 0,
     _preloadingEpisode |-> NoUrl,
     _lastSeekTime |-> Undefined]

(***************************************************************************)
(* Bounds of the model.                                                    *)
(***************************************************************************)
MaxResults == 2      \* entries of searchResults drawn as input of the selection
MaxEpisodes == 2     \* episodes of one search result
MaxInits == 2        \* calls of init
MaxResponse == 2     \* results in one response of the search backend

SourceSeq == <<"s1", "s2", "s3", "s4", "s5">>
SourceIds == {SourceSeq[i] : i \in 1..(MaxResults + 1)}

(***************************************************************************)
(* IEEE-754 binary64 arithmetic on the values the scoring uses.            *)
(* A double x is the record [t, e] with  x = t/10 + e * w,  w = 2^-56 / 5: *)
(* t is the decimal value in tenths, e the rounding error in units of w.   *)
(* In units of w the value is X = t * 2^55 + e, and the spacing of doubles *)
(* in the binade [2^k, 2^(k+1)) is U = 5 * 2^(k+4).                        *)
(***************************************************************************)
FZero == [t |-> 0, e |-> 0]

Pow2(n) == IF n = 0 THEN 1 ELSE IF n = 1 THEN 2 ELSE IF n = 2 THEN 4 ELSE IF n = 3 THEN 8
           ELSE IF n = 4 THEN 16 ELSE IF n = 5 THEN 32 ELSE IF n = 6 THEN 64 ELSE 128

\* 2^n mod 5
Pow2Mod5(n) == IF n % 4 = 0 THEN 1 ELSE IF n % 4 = 1 THEN 2 ELSE IF n % 4 = 2 THEN 4 ELSE 3

\* x >= p/10
FGeTenths(x, p) == x.t > p \/ (x.t = p /\ x.e >= 0)

\* j with ulp(x) = 5 * 2^j units of w, for 0.1 <= x < 8
FUlpExp(x) ==
    IF ~FGeTenths(x, 2) THEN 0
    ELSE IF x.t < 3 THEN 1
    ELSE IF ~FGeTenths(x, 5) THEN 2
    ELSE IF ~FGeTenths(x, 10) THEN 3
    ELSE IF ~FGeTenths(x, 20) THEN 4
    ELSE IF ~FGeTenths(x, 40) THEN 5
    ELSE 6

\* round-to-nearest, ties-to-even of the exact value x
FRound(x) ==
    IF x = FZero THEN FZero
    ELSE LET j    == FUlpExp(x)
             U    == 5 * Pow2(j)
             base == Pow2(j + 1) * (((x.t % 5) * Pow2Mod5(54 - j)) % 5)
             r2   == (base + x.e) % (2 * U)
             rho  == r2 % U
             odd  == r2 >= U
         IN  IF 2 * rho < U \/ (2 * rho = U /\ ~odd)
             THEN [t |-> x.t, e |-> x.e - rho]
             ELSE [t |-> x.t, e |-> x.e + (U - rho)]

\* the literals 0.6 and 0.4
F06 == FRound([t |-> 6, e |-> 0])
F04 == FRound([t |-> 4, e |-> 0])

\* n * x for a small integer n
FMulInt(n, x) == FRound([t |-> n * x.t, e |-> n * x.e])

FAdd(x, y) == FRound([t |-> x.t + y.t, e |-> x.e + y.e])

\* sign of x - y
FSubSign(x, y) ==
    IF x.t > y.t \/ (x.t = y.t /\ x.e > y.e) THEN 1
    ELSE IF x = y THEN 0
    ELSE -1


(***************************************************************************)
(* Search results.  A resolution is a string, kept as its sequence of      *)
(* characters; <<>> stands for null, undefined and '' alike, which is what *)
(* `a.resolution || ''` makes of them.                                     *)
(***************************************************************************)
NoResolution == <<>>
R1080p == <<"1", "0", "8", "0", "p">>
R720p  == <<"7", "2", "0", "p">>
R480p  == <<"4", "8", "0", "p">>
R360p  == <<"3", "6", "0", "p">>
R240p  == <<"2", "4", "0", "p">>
ResolutionInputs == {NoResolution, R1080p, R720p, R480p, R360p, R240p}

\* measured latencies, one in each bucket of speedScore
SpeedInputs == {100, 450, 800, 1500, 2500}

\* the file extension of the episode URLs of a source
Extension(src) == IF src = "s2" THEN ".mp4" ELSE ".m3u8"

\* the URL of episode i of a source
EpisodeUrl(src, i) == <<src, i, Extension(src)>>
EpisodeList(src, n) == [i \in 1..n |-> EpisodeUrl(src, i)]

SearchResult(src, id, title, n, res, speed, tested) ==
    [source |-> src, id |-> id, title |-> title, episodes |-> EpisodeList(src, n),
     resolution |-> res, networkSpeed |-> speed, lastSpeedTest |-> tested]

\* String.prototype.includes
Includes(str, sub) ==
    \E i \in 0..(Len(str) - Len(sub)) : SubSeq(str, i + 1, i + Len(sub)) = sub

resolutionPriority(res) ==
    IF Includes(res, <<"1", "0", "8", "0">>) THEN 4
    ELSE IF Includes(res, <<"7", "2", "0">>) THEN 3
    ELSE IF Includes(res, <<"4", "8", "0">>) THEN 2
    ELSE IF Includes(res, <<"3", "6", "0">>) THEN 1
    ELSE 0

speedScore(speed) ==
    IF speed = Unmeasured THEN 3
    ELSE IF speed < 300 THEN 0
    ELSE IF speed < 600 THEN 1
    ELSE IF speed < 1000 THEN 2
    ELSE IF speed < 2000 THEN 3
    ELSE 4

\* the weights of resolution and speed exchanged
TotalScore_WeightsSwapped(a) ==
    LET resolutionValue == FMulInt(resolutionPriority(a.resolution), F04)
        speedValue      == FMulInt(4 - speedScore(a.networkSpeed), F06)
    IN  FAdd(resolutionValue, speedValue)

\* aTotalScore / bTotalScore of the sort comparator
TotalScore(a) ==
    LET resolutionValue == FMulInt(resolutionPriority(a.resolution), F06)
        speedValue      == FMulInt(4 - speedScore(a.networkSpeed), F04)
    IN  FAdd(resolutionValue, speedValue)

\* sign of the comparator's return value  bTotalScore - aTotalScore
CompareSources(a, b) == FSubSign(TotalScore(b), TotalScore(a))

\* Array.prototype.sort: a stable sort by the comparator
RECURSIVE InsertSorted(_, _)
InsertSorted(sorted, x) ==
    IF sorted = <<>> THEN <<x>>
    ELSE IF CompareSources(Head(sorted), x) <= 0
         THEN <<Head(sorted)>> \o InsertSorted(Tail(sorted), x)
         ELSE <<x>> \o sorted

RECURSIVE SortSources(_)
SortSources(seq) ==
    IF seq = <<>> THEN <<>>
    ELSE InsertSorted(SortSources(SubSeq(seq, 1, Len(seq) - 1)), seq[Len(seq)])

\* the filter without its failedSources test
IsAvailable_FailedNotExcluded(result, failed, currentSource, episodeIndex) ==
    /\ result.source # currentSource
    /\ Len(result.episodes) > episodeIndex

\* the filter comparing the episode count with >= instead of >
IsAvailable_EpisodeOffByOne(result, failed, currentSource, episodeIndex) ==
    /\ result.source # currentSource
    /\ result.source \notin failed
    /\ Len(result.episodes) >= episodeIndex

\* the filter of getNextAvailableSource
IsAvailable(result, failed, currentSource, episodeIndex) ==
    /\ result.source # currentSource
    /\ result.source \notin failed
    /\ Len(result.episodes) > episodeIndex

AvailableSources(results, failed, currentSource, episodeIndex) ==
    SelectSeq(results, LAMBDA r : IsAvailable(r, failed, currentSource, episodeIndex))

\* returning null unless there is a choice between two sources
SelectedSource_NullOnSingle(results, failed, currentSource, episodeIndex) ==
    LET availableSources == AvailableSources(results, failed, currentSource, episodeIndex)
    IN  IF Len(availableSources) <= 1 THEN NullRef
        ELSE SortSources(availableSources)[1]

\* the value getNextAvailableSource returns
SelectedSource(results, failed, currentSource, episodeIndex) ==
    LET availableSources == AvailableSources(results, failed, currentSource, episodeIndex)
    IN  IF Len(availableSources) = 0 THEN NullRef
        ELSE SortSources(availableSources)[1]

TenMinutes == 600000

\* the sources getNextAvailableSource sends to measureNetworkSpeed
NeedsSpeedTest(a) ==
    \/ a.networkSpeed = Unmeasured \/ a.networkSpeed = 0
    \/ a.lastSpeedTest = Unmeasured
    \/ clock - a.lastSpeedTest > TenMinutes

(***************************************************************************)
(* getNextAvailableSource(currentSource, episodeIndex): returns the        *)
(* selected source and starts measureNetworkSpeed, which runs up to its    *)
(* HEAD fetch, for every available source without a fresh measurement.     *)
(***************************************************************************)
getNextAvailableSource(currentSource, episodeIndex) ==
    LET availableSources ==
            AvailableSources(searchResults, failedSources, currentSource, episodeIndex)
        toMeasure ==
            {[source |-> availableSources[i].source, now |-> clock] :
                i \in {k \in 1..Len(availableSources) : NeedsSpeedTest(availableSources[k])}}
    IN  /\ selection' = [called |-> TRUE, currentSource |-> currentSource,
                         episodeIndex |-> episodeIndex,
                         ret |-> SelectedSource(searchResults, failedSources,
                                                currentSource, episodeIndex)]
        /\ speedTests' = speedTests \cup toMeasure
        /\ UNCHANGED <<searchResults, failedSources, probeVars, cacheVars, playerVars>>
        /\ UNCHANGED <<q, detail, loading, error, allSourcesLoaded, controller, aborted, inits>>

\* measureNetworkSpeed after its fetch resolved: the latency is stored in
\* every search result of that source.  The value a caller got from
\* getNextAvailableSource is kept only until the store changes.
measureNetworkSpeedDone(test, latency) ==
    /\ test \in speedTests
    /\ speedTests' = speedTests \ {test}
    /\ searchResults' =
         [i \in 1..Len(searchResults) |->
             IF searchResults[i].source = test.source
             THEN [searchResults[i] EXCEPT !.networkSpeed = latency,
                                           !.lastSpeedTest = test.now]
             ELSE searchResults[i]]
    /\ selection' = NoCall
    /\ UNCHANGED <<failedSources, probeVars, cacheVars, playerVars>>
    /\ UNCHANGED <<q, detail, loading, error, allSourcesLoaded, controller, aborted, inits>>

\* measureNetworkSpeed after its fetch failed or timed out: returns Infinity
measureNetworkSpeedFailed(test) ==
    /\ test \in speedTests
    /\ speedTests' = speedTests \ {test}
    /\ UNCHANGED <<searchResults, failedSources, selection, probeVars, cacheVars, playerVars>>
    /\ UNCHANGED <<q, detail, loading, error, allSourcesLoaded, controller, aborted, inits>>

(***************************************************************************)
(* Specification of the selection engine: the inputs of                    *)
(* getNextAvailableSource are drawn from two families of search results.   *)
(***************************************************************************)
\* episode lists of every length, with and without a resolution, unmeasured
FilterInputs == (0..MaxEpisodes) \X {NoResolution, R1080p} \X {Unmeasured}

\* one episode, every resolution and every latency bucket
ScoreInputs == {1} \X ResolutionInputs \X (SpeedInputs \cup {Unmeasured})

\* search results of distinct sources with the given <<episodes, resolution,
\* latency>>; a latency was measured at time 0
ResultList(inputs) ==
    [i \in DOMAIN inputs |->
        SearchResult(SourceSeq[i], 1, "t1", inputs[i][1], inputs[i][2], inputs[i][3],
                     IF inputs[i][3] = Unmeasured THEN Unmeasured ELSE 0)]

InitSelect ==
    /\ \E n \in 0..MaxResults :
          \/ /\ \E inputs \in [1..n -> FilterInputs] : searchResults = ResultList(inputs)
             /\ failedSources \in SUBSET SourceIds
          \/ /\ \E inputs \in [1..n -> ScoreInputs] : searchResults = ResultList(inputs)
             /\ failedSources = {}
    /\ speedTests = {}
    /\ selection = NoCall
    /\ q = NoQuery
    /\ detail = NullRef
    /\ loading = TRUE
    /\ error = NoError
    /\ allSourcesLoaded = FALSE
    /\ controller = 0
    /\ aborted = {}
    /\ inits = <<>>
    /\ _cachedSources = [url \in Urls |-> NoEntry]
    /\ _preloadTestAbortController = 0
    /\ probes = <<>>
    /\ player = InitialPlayer
    /\ timers = {}
    /\ tasks = {}
    /\ toasts = <<>>
    /\ saves = {}
    /\ videoErrors = <<>>
    /\ refs = NoRefs
    /\ onErrors = <<>>
    /\ cache = <<>>
    /\ cacheOps = <<>>
    /\ clock = 0

\* the length of the longest episode list among the search results
LongestEpisodeList ==
    LET lens == {Len(searchResults[i].episodes) : i \in 1..Len(searchResults)} \cup {0}
    IN  CHOOSE n \in lens : \A m \in lens : m <= n

\* one call of getNextAvailableSource on the inputs drawn by InitSelect, for
\* an episode index up to the first one that no search result has
SelectFallback(currentSource, episodeIndex) ==
    /\ selection = NoCall
    /\ episodeIndex <= LongestEpisodeList
    /\ getNextAvailableSource(currentSource, episodeIndex)

NextSelect ==
    \E currentSource \in SourceIds, episodeIndex \in 0..MaxEpisodes :
        SelectFallback(currentSource, episodeIndex)

SpecSelect == InitSelect /\ [][NextSelect]_vars

(***************************************************************************)
(* Properties of getNextAvailableSource, stated on the value it returned   *)
(* last (selection) and the store it was computed from.                    *)
(***************************************************************************)
Returned == selection.called /\ selection.ret # NullRef

\* the search results that qualify as a fallback for the latest call
Candidates ==
    {i \in 1..Len(searchResults) :
        /\ searchResults[i].source # selection.currentSource
        /\ searchResults[i].source \notin failedSources
        /\ Len(searchResults[i].episodes) >= selection.episodeIndex + 1}

\* resolutionTier of the specification
Tier(res) ==
    IF res = R1080p THEN 4 ELSE IF res = R720p THEN 3
    ELSE IF res = R480p THEN 2 ELSE IF res = R360p THEN 1 ELSE 0

\* ten times the score 0.6 * tier + 0.4 * (4 - bucket), in exact arithmetic,
\* for a latency bucket table given as its value for 2000 ms and more
Score10(r, slowBucket) ==
    LET ms     == r.networkSpeed
        bucket == IF ms = Unmeasured THEN 3
                  ELSE IF ms >= 2000 THEN slowBucket
                  ELSE IF ms >= 1000 THEN 3
                  ELSE IF ms >= 600 THEN 2
                  ELSE IF ms >= 300 THEN 1
                  ELSE 0
    IN  6 * Tier(r.resolution) + 4 * (4 - bucket)

\* C1: getNextAvailableSource never returns a candidate whose source equals
\* currentSource or is a member of failedSources.
C1_NotCurrentNotFailed ==
    Returned =>
        /\ selection.ret.source # selection.currentSource
        /\ selection.ret.source \notin failedSources

\* a source was returned although another one with the requested episode was
\* the current source or a failed source
C1_Witness ==
    /\ Returned
    /\ \E i \in 1..Len(searchResults) :
          /\ Len(searchResults[i].episodes) > selection.episodeIndex
          /\ searchResults[i].source \in failedSources \cup {selection.currentSource}

\* C2: a candidate returned by getNextAvailableSource has an episode list
\* strictly longer than the requested episodeIndex.
C2_HasEpisode ==
    Returned => Len(selection.ret.episodes) >= selection.episodeIndex + 1

\* a source was returned although another one, neither current nor failed,
\* has episodes but not the requested one
C2_Witness ==
    /\ Returned
    /\ selection.episodeIndex > 0
    /\ \E i \in 1..Len(searchResults) :
          /\ searchResults[i].source \notin failedSources \cup {selection.currentSource}
          /\ Len(searchResults[i].episodes) = selection.episodeIndex

\* C3 as amended: the returned candidate has a maximal score
\* 0.6 * tier + 0.4 * (4 - bucket) among the eligible candidates, where a
\* latency of 2000 ms or more is bucket 4 (unmeasured stays bucket 3); a
\* 1080p/250ms candidate is chosen over a 720p/100ms one.
C3_MaximalScore ==
    /\ Returned =>
          /\ \E i \in Candidates : searchResults[i] = selection.ret
          /\ \A i \in Candidates :
                Score10(selection.ret, 4) >= Score10(searchResults[i], 4)
    /\ SelectedSource(<<SearchResult("s1", 1, "t1", 1, R720p, 100, 0),
                        SearchResult("s2", 1, "t1", 1, R1080p, 250, 0)>>, {}, "s3", 0).source = "s2"

\* the returned candidate is not the first eligible one, and a candidate
\* measured at 2000 ms or more took part
C3_Witness ==
    /\ Returned
    /\ \E i \in Candidates : searchResults[i].networkSpeed >= 2000
    /\ \E i \in Candidates : \A j \in Candidates : i <= j /\ searchResults[i] # selection.ret

\* C3 as stated: the score is maximal with 2000 ms or more in bucket 3.
C3_Original ==
    Returned =>
        \A i \in Candidates :
            Score10(selection.ret, 3) >= Score10(searchResults[i], 3)

\* C4: when several eligible candidates share the highest score, the one
\* that appears first in searchResults is returned.
C4_TieFirstInOrder ==
    Returned =>
        LET best == {i \in Candidates :
                        \A j \in Candidates :
                            Score10(searchResults[i], 4) >= Score10(searchResults[j], 4)}
        IN  \A i \in best : \A j \in best :
                searchResults[j] = selection.ret => j <= i

\* C5: getNextAvailableSource returns null if and only if no search result
\* differs from currentSource, is absent from failedSources and has an
\* episode at episodeIndex.
C5_NullIffNoCandidate ==
    selection.called => ((selection.ret = NullRef) <=> (Candidates = {}))

\* null was returned although there are search results
C5_Witness ==
    /\ selection.called
    /\ selection.ret = NullRef
    /\ Len(searchResults) = MaxResults

\* a source was returned
C5_WitnessReturned == Returned /\ Cardinality(Candidates) = 1

(***************************************************************************)
(* detailStore.init(q, preferredSource, id): the search aggregator.        *)
(* A call is a record of inits; its controller is its index.  errors are   *)
(* kept as the kind of message and the query it quotes.                    *)
(***************************************************************************)
Titles == {"t1", "t2"}
Resources == {"s1", "s2"}           \* the keys api.getResources returns
NoSource == "none"                  \* init called without preferredSource and id
DetectedResolutions == {NoResolution, R720p}

ErrorMsg(kind, query) == [kind |-> kind, q |-> query]

\* a result as the search backend returns it
RawResult(src, id, title) ==
    SearchResult(src, id, title, MaxEpisodes, NoResolution, Unmeasured, Unmeasured)

\* the responses of api.searchVideo(q, src): results of that source, titled
\* as the query
SearchVideoResponses(src, query) ==
    {[i \in 1..n |-> RawResult(src, i, query)] : n \in 0..MaxResponse}

\* the responses of api.searchVideos(q): results of any source
SearchVideosResponses ==
    UNION {{[i \in 1..n |-> RawResult(st[i][1], i, st[i][2])] :
                st \in [1..n -> Resources \X Titles]}
            : n \in 0..MaxResponse}

\* allResults.filter(item => item.title === q)
TitleMatches(results, query) == SelectSeq(results, LAMBDA r : r.title = query)

\* resultsWithResolution: getResolutionFromM3U8 is asked for a result that
\* has episodes, and may fail; one outcome for the results of a response
WithResolution(results, resolution) ==
    [i \in 1..Len(results) |->
        [results[i] EXCEPT !.resolution =
            IF Len(results[i].episodes) > 0 THEN resolution ELSE NoResolution]]

NewInit(query, preferred) ==
    [pc |-> IF preferred # NoSource THEN "prefSearch" ELSE "resources",
     q |-> query, preferred |-> preferred,
     pending |-> <<>>,
     fan |-> [r \in Resources |-> "none"],
     fanPending |-> [r \in Resources |-> <<>>],
     totalResults |-> 0,
     firstResultFound |-> FALSE]

\* the fields of the detail store that init writes after its first set
Store ==
    [searchResults |-> searchResults, detail |-> detail, loading |-> loading,
     error |-> error, allSourcesLoaded |-> allSourcesLoaded]

Commit(d) ==
    /\ searchResults' = d.searchResults
    /\ detail' = d.detail
    /\ loading' = d.loading
    /\ error' = d.error
    /\ allSourcesLoaded' = d.allSourcesLoaded

\* the set(state => ...) of processAndSetResults
SetResults(d, resultsWithResolution, merge) ==
    LET existingSources == {d.searchResults[i].source : i \in 1..Len(d.searchResults)}
        newResults == SelectSeq(resultsWithResolution,
                                LAMBDA r : r.source \notin existingSources)
        finalResults == IF merge THEN d.searchResults \o newResults
                        ELSE resultsWithResolution
    IN  [d EXCEPT !.searchResults = finalResults,
                  !.detail = IF d.detail # NullRef THEN d.detail
                             ELSE IF Len(finalResults) > 0 THEN finalResults[1]
                             ELSE NullRef]

\* processAndSetResults once the resolution are known
processAndSetResults(d, c, resultsWithResolution, merge) ==
    IF c \in aborted THEN d ELSE SetResults(d, resultsWithResolution, merge)

\* the finally block of init
InitFinally(d, c) ==
    IF c \notin aborted THEN [d EXCEPT !.loading = FALSE, !.allSourcesLoaded = TRUE]
    ELSE d

\* init after its searches: the final check, then the favorite check when
\* there is a detail, else the finally block.  <<store, pc>>
InitTail(d, c) ==
    LET d1 == IF Len(d.searchResults) = 0 /\ d.error = NoError
              THEN [d EXCEPT !.error = ErrorMsg("notFoundFinal", inits[c].q)]
              ELSE d
    IN  IF d.detail # NullRef THEN <<d1, "favorite">>
        ELSE <<InitFinally(d1, c), "done">>

\* init after Promise.all(searchPromises)
FanoutTail(d, c, totalResults) ==
    InitTail(IF totalResults = 0
             THEN [d EXCEPT !.error = ErrorMsg("notFound", inits[c].q), !.loading = FALSE]
             ELSE d, c)

Step(c, call, dpc) ==
    /\ inits' = [inits EXCEPT ![c] = [call EXCEPT !.pc = dpc[2]]]
    /\ Commit(dpc[1])
    /\ UNCHANGED <<q, controller, aborted, selectVars, probeVars, cacheVars, playerVars>>

Calls == 1..Len(inits)

\* init whose first set leaves allSourcesLoaded as it is
InitStart_KeepsAllSourcesLoaded(query, preferred) ==
    /\ Len(inits) < MaxInits
    /\ aborted' = IF controller # 0 THEN aborted \cup {controller} ELSE aborted
    /\ controller' = Len(inits) + 1
    /\ q' = query
    /\ loading' = TRUE
    /\ searchResults' = <<>>
    /\ detail' = NullRef
    /\ error' = NoError
    /\ inits' = Append(inits, NewInit(query, preferred))
    /\ UNCHANGED <<allSourcesLoaded, selectVars, probeVars, cacheVars, playerVars>>

\* init up to its first await
InitStart(query, preferred) ==
    /\ Len(inits) < MaxInits
    /\ aborted' = IF controller # 0 THEN aborted \cup {controller} ELSE aborted
    /\ controller' = Len(inits) + 1
    /\ q' = query
    /\ loading' = TRUE
    /\ searchResults' = <<>>
    /\ detail' = NullRef
    /\ error' = NoError
    /\ allSourcesLoaded' = FALSE
    /\ inits' = Append(inits, NewInit(query, preferred))
    /\ UNCHANGED <<selectVars, probeVars, cacheVars, playerVars>>

\* detailStore.abort()
abort ==
    /\ controller # 0
    /\ controller \notin aborted
    /\ aborted' = aborted \cup {controller}
    /\ UNCHANGED <<searchResults, q, detail, loading, error, allSourcesLoaded, controller,
                   inits, selectVars, probeVars, cacheVars, playerVars>>

\* api.searchVideo(q, preferredSource, signal) resolved
PreferredResponds(c, results) ==
    /\ inits[c].pc = "prefSearch"
    /\ c \notin aborted
    /\ IF Len(results) > 0
       THEN Step(c, [inits[c] EXCEPT !.pending = results], <<Store, "prefDetect">>)
       ELSE Step(c, inits[c], <<Store, "fallbackSearch">>)

\* api.searchVideo(q, preferredSource, signal) rejected, with an AbortError
\* when the signal is aborted
PreferredFails(c) ==
    /\ inits[c].pc = "prefSearch"
    /\ IF c \in aborted
       THEN Step(c, inits[c], <<Store, "done">>)
       ELSE Step(c, inits[c], <<Store, "fallbackSearch">>)

\* processAndSetResults(preferredResult, false) resumed, then the background
\* search is started
PreferredDetected(c, resolution) ==
    /\ inits[c].pc = "prefDetect"
    /\ LET d1 == processAndSetResults(Store, c,
                     WithResolution(inits[c].pending, resolution), FALSE)
       IN  Step(c, [inits[c] EXCEPT !.pending = <<>>],
                <<[d1 EXCEPT !.loading = FALSE], "bgSearch">>)

\* the fallback api.searchVideos(q) resolved
FallbackResponds(c, allResults) ==
    /\ inits[c].pc = "fallbackSearch"
    /\ LET filteredResults == TitleMatches(allResults, inits[c].q)
       IN  IF Len(filteredResults) > 0
           THEN Step(c, [inits[c] EXCEPT !.pending = filteredResults],
                     <<Store, "fallbackDetect">>)
           ELSE Step(c, inits[c],
                     InitTail([Store EXCEPT !.error = ErrorMsg("notFound", inits[c].q),
                                            !.loading = FALSE], c))

\* the fallback api.searchVideos(q) rejected
FallbackFails(c) ==
    /\ inits[c].pc = "fallbackSearch"
    /\ Step(c, inits[c],
            InitTail([Store EXCEPT !.error = ErrorMsg("searchFailed", inits[c].q),
                                   !.loading = FALSE], c))

\* processAndSetResults(filteredResults, false) resumed
FallbackDetected(c, resolution) ==
    /\ inits[c].pc = "fallbackDetect"
    /\ LET d1 == processAndSetResults(Store, c,
                     WithResolution(inits[c].pending, resolution), FALSE)
       IN  Step(c, [inits[c] EXCEPT !.pending = <<>>],
                InitTail([d1 EXCEPT !.loading = FALSE], c))

\* the background api.searchVideos(q) resolved
BackgroundResponds(c, allResults) ==
    /\ inits[c].pc = "bgSearch"
    /\ IF c \in aborted
       THEN Step(c, inits[c], <<Store, "done">>)
       ELSE Step(c, [inits[c] EXCEPT !.pending = TitleMatches(allResults, inits[c].q)],
                 <<Store, "bgDetect">>)

\* the background api.searchVideos(q) rejected
BackgroundFails(c) ==
    /\ inits[c].pc = "bgSearch"
    /\ Step(c, inits[c], InitTail(Store, c))

\* processAndSetResults(..., true) of the background search resumed
BackgroundDetected(c, resolution) ==
    /\ inits[c].pc = "bgDetect"
    /\ Step(c, [inits[c] EXCEPT !.pending = <<>>],
            InitTail(processAndSetResults(Store, c,
                         WithResolution(inits[c].pending, resolution), TRUE), c))

\* FavoriteManager.isFavorited settled, then the finally block
FavoriteChecked(c) ==
    /\ inits[c].pc = "favorite"
    /\ Step(c, inits[c], <<InitFinally(Store, c), "done">>)

\* api.getResources(signal) resolved: the searches of the enabled resources
\* are started
ResourcesRespond(c, enabledResources) ==
    /\ inits[c].pc = "resources"
    /\ c \notin aborted
    /\ IF enabledResources = {}
       THEN Step(c, inits[c],
                 <<InitFinally([Store EXCEPT !.error = ErrorMsg("noSources", inits[c].q),
                                             !.loading = FALSE], c), "done">>)
       ELSE Step(c, [inits[c] EXCEPT !.fan = [r \in Resources |->
                                        IF r \in enabledResources THEN "searching"
                                        ELSE "none"]],
                 <<Store, "fanout">>)

\* api.getResources(signal) rejected, with an AbortError when the signal is
\* aborted
ResourcesFail(c) ==
    /\ inits[c].pc = "resources"
    /\ Step(c, inits[c],
            <<InitFinally([Store EXCEPT !.error = ErrorMsg("resourcesFailed", inits[c].q),
                                        !.loading = FALSE], c), "done">>)

\* the searches of the fan-out that have not settled
Unsettled(fan) == {r \in Resources : fan[r] \in {"searching", "detecting"}}

\* one search promise of the fan-out settled; the last one resumes init
SourceSettles(c, call, d) ==
    IF Unsettled(call.fan) = {}
    THEN Step(c, call, FanoutTail(d, c, call.totalResults))
    ELSE Step(c, call, <<d, "fanout">>)

\* api.searchVideo(q, resource.key, signal) resolved
SourceResponds(c, r, results) ==
    /\ inits[c].pc = "fanout"
    /\ inits[c].fan[r] = "searching"
    /\ c \notin aborted
    /\ IF Len(results) > 0
       THEN Step(c, [inits[c] EXCEPT !.fan[r] = "detecting",
                                     !.fanPending[r] = results,
                                     !.totalResults = @ + Len(results)],
                 <<Store, "fanout">>)
       ELSE SourceSettles(c, [inits[c] EXCEPT !.fan[r] = "done"], Store)

\* api.searchVideo(q, resource.key, signal) rejected, with an AbortError
\* when the signal is aborted
SourceFails(c, r) ==
    /\ inits[c].pc = "fanout"
    /\ inits[c].fan[r] = "searching"
    /\ SourceSettles(c, [inits[c] EXCEPT !.fan[r] = "done"], Store)

\* processAndSetResults(results, true) of one resource resumed
SourceDetected(c, r, resolution) ==
    /\ inits[c].pc = "fanout"
    /\ inits[c].fan[r] = "detecting"
    /\ LET d1 == processAndSetResults(Store, c,
                     WithResolution(inits[c].fanPending[r], resolution), TRUE)
           d2 == IF inits[c].firstResultFound THEN d1 ELSE [d1 EXCEPT !.loading = FALSE]
       IN  SourceSettles(c, [inits[c] EXCEPT !.fan[r] = "done",
                                             !.fanPending[r] = <<>>,
                                             !.firstResultFound = TRUE], d2)

InitAgg ==
    /\ searchResults = <<>>
    /\ failedSources = {}
    /\ speedTests = {}
    /\ selection = NoCall
    /\ q = NoQuery
    /\ detail = NullRef
    /\ loading = TRUE
    /\ error = NoError
    /\ allSourcesLoaded = FALSE
    /\ controller = 0
    /\ aborted = {}
    /\ inits = <<>>
    /\ _cachedSources = [url \in Urls |-> NoEntry]
    /\ _preloadTestAbortController = 0
    /\ probes = <<>>
    /\ player = InitialPlayer
    /\ timers = {}
    /\ tasks = {}
    /\ toasts = <<>>
    /\ saves = {}
    /\ videoErrors = <<>>
    /\ refs = NoRefs
    /\ onErrors = <<>>
    /\ cache = <<>>
    /\ cacheOps = <<>>
    /\ clock = 0

NextAgg ==
    \/ \E query \in Titles, preferred \in Resources \cup {NoSource} :
          InitStart(query, preferred)
    \/ abort
    \/ \E c \in Calls : \E results \in SearchVideoResponses(inits[c].preferred, inits[c].q) :
          PreferredResponds(c, results)
    \/ \E c \in Calls : PreferredFails(c)
    \/ \E c \in Calls : \E resolution \in DetectedResolutions :
          PreferredDetected(c, resolution)
    \/ \E c \in Calls : \E allResults \in SearchVideosResponses :
          FallbackResponds(c, allResults)
    \/ \E c \in Calls : FallbackFails(c)
    \/ \E c \in Calls : \E resolution \in DetectedResolutions :
          FallbackDetected(c, resolution)
    \/ \E c \in Calls : \E allResults \in SearchVideosResponses :
          BackgroundResponds(c, allResults)
    \/ \E c \in Calls : BackgroundFails(c)
    \/ \E c \in Calls : \E resolution \in DetectedResolutions :
          BackgroundDetected(c, resolution)
    \/ \E c \in Calls : FavoriteChecked(c)
    \/ \E c \in Calls : \E enabledResources \in SUBSET Resources :
          ResourcesRespond(c, enabledResources)
    \/ \E c \in Calls : ResourcesFail(c)
    \/ \E c \in Calls, r \in Resources : \E results \in SearchVideoResponses(r, inits[c].q) :
          SourceResponds(c, r, results)
    \/ \E c \in Calls, r \in Resources : SourceFails(c, r)
    \/ \E c \in Calls, r \in Resources : \E resolution \in DetectedResolutions :
          SourceDetected(c, r, resolution)

SpecAgg == InitAgg /\ [][NextAgg]_vars

(***************************************************************************)
(* C6: within one init session searchResults never holds two entries with  *)
(* the same source, whatever the order of the preferred, fallback,         *)
(* background and fan-out arrivals, and also when one response holds       *)
(* several results of one source.                                          *)
(***************************************************************************)
C6_NoDuplicateSource ==
    \A i, j \in 1..Len(searchResults) :
        searchResults[i].source = searchResults[j].source => i = j

(***************************************************************************)
(* playerStore._preloadAndTestSource(url): the probe.                      *)
(* A call is a record of probes; its AbortController is its index.  fetch  *)
(* is the state of the request the call issued.                            *)
(***************************************************************************)
MaxProbes == 3
MaxShortTicks == 2
MaxLongTicks == 1

FiveMinutes == 300000       \* 5 * 60 * 1000
CachedTolerance == 3000
Tolerance == 4000
PreloadTimeout == 7000
ShortTick == 3500

\* the instants at which the clock is observed
Instants == {a * ShortTick + b * FiveMinutes : a \in 0..MaxShortTicks, b \in 0..MaxLongTicks}

Statuses == {200, 206, 404}

\* response.ok
Ok(status) == status \in 200..299

\* url.endsWith(suffix)
EndsWith(url, suffix) == Len(url) > 0 /\ url[Len(url)] = suffix

Entry(timestamp, responseTime) ==
    [present |-> TRUE, timestamp |-> timestamp, responseTime |-> responseTime]

\* the call returned a value: the finally block has run when it had entered try
ProbeReturns(call, ret) ==
    [call EXCEPT !.pc = "done", !.promise = "resolved", !.ret = ret]

ProbeCatch_Rethrows(call, cause) ==
    [call EXCEPT !.pc = "done", !.promise = "rejected", !.thrown = cause]

\* the catch block: the error thrown inside try is logged, the call returns false
ProbeCatch(call, cause) == ProbeReturns([call EXCEPT !.thrown = cause], FALSE)

ProbeCalls == 1..Len(probes)

\* _preloadAndTestSource(url) up to its return from the cache, or to its await
ProbeCall(url) ==
    LET cachedSource == _cachedSources[url]
        now == clock
        call == [url |-> url, now |-> now, pc |-> "fetching", fetch |-> "none",
                 cachedSource |-> cachedSource, responseTime |-> 0, ret |-> FALSE,
                 promise |-> "pending", thrown |-> "none"]
        previous == _preloadTestAbortController
    IN  IF cachedSource.present /\ now - cachedSource.timestamp < FiveMinutes
        THEN /\ probes' = Append(probes,
                     ProbeReturns(call, cachedSource.responseTime < CachedTolerance))
             /\ UNCHANGED <<_cachedSources, _preloadTestAbortController>>
        ELSE /\ probes' = Append(
                     IF previous # 0 /\ probes[previous].fetch = "inflight"
                     THEN [probes EXCEPT ![previous].fetch = "aborted"]
                     ELSE probes,
                     [call EXCEPT !.fetch = "inflight"])
             /\ _preloadTestAbortController' = Len(probes) + 1
             /\ UNCHANGED _cachedSources

\* _preloadAndTestSource called on its own
ProbeStart(url) ==
    /\ Len(probes) < MaxProbes
    /\ ProbeCall(url)
    /\ UNCHANGED <<selectVars, detailVars, cacheVars, playerVars, clock>>

\* the call leaves its try block: the finally block clears the controller
ProbeEnds(k, call) ==
    /\ probes' = [probes EXCEPT ![k] = call]
    /\ _preloadTestAbortController' = 0
    /\ UNCHANGED <<selectVars, detailVars, cacheVars, playerVars, clock>>

Awaiting(k) == probes[k].pc = "fetching"

Elapsed(k) == clock - probes[k].now

\* the fetch resolved before the timer fired
ProbeResponds(k, status) ==
    /\ Awaiting(k)
    /\ probes[k].fetch = "inflight"
    /\ Elapsed(k) < PreloadTimeout
    /\ LET url == probes[k].url
           accepted == IF EndsWith(url, ".m3u8") THEN Ok(status)
                       ELSE ~(~Ok(status) /\ status # 206)
           responseTime == Elapsed(k)
           settled == [probes[k] EXCEPT !.fetch = "settled"]
       IN  IF accepted
           THEN /\ _cachedSources' =
                       [_cachedSources EXCEPT ![url] = Entry(probes[k].now, responseTime)]
                /\ ProbeEnds(k, ProbeReturns([settled EXCEPT !.responseTime = responseTime],
                                         responseTime < Tolerance))
           ELSE /\ UNCHANGED _cachedSources
                /\ ProbeEnds(k, ProbeCatch(settled, "HTTP error"))

\* the fetch rejected with a network error before the timer fired
ProbeFails(k) ==
    /\ Awaiting(k)
    /\ probes[k].fetch = "inflight"
    /\ Elapsed(k) < PreloadTimeout
    /\ UNCHANGED _cachedSources
    /\ ProbeEnds(k, ProbeCatch([probes[k] EXCEPT !.fetch = "settled"], "network error"))

\* the fetch rejected with an AbortError
ProbeAborted(k) ==
    /\ Awaiting(k)
    /\ probes[k].fetch = "aborted"
    /\ UNCHANGED _cachedSources
    /\ ProbeEnds(k, ProbeCatch(probes[k], "AbortError"))

\* the timer of Promise.race fired first: the fetch is left as it is
ProbeTimeout(k) ==
    /\ Awaiting(k)
    /\ probes[k].fetch = "inflight"
    /\ Elapsed(k) >= PreloadTimeout
    /\ UNCHANGED _cachedSources
    /\ ProbeEnds(k, ProbeCatch(probes[k], "Preload timeout"))

\* the fetch of a call that timed out settles: nobody awaits it
FetchSettles(k) ==
    /\ ~Awaiting(k)
    /\ probes[k].fetch = "inflight"
    /\ probes' = [probes EXCEPT ![k].fetch = "settled"]
    /\ UNCHANGED <<_cachedSources, _preloadTestAbortController, selectVars, detailVars,
                   cacheVars, playerVars, clock>>

\* time passes
Tick(d) ==
    /\ clock + d \in Instants
    /\ clock' = clock + d
    /\ UNCHANGED <<_cachedSources, _preloadTestAbortController, probes, selectVars,
                   detailVars, cacheVars, playerVars>>

InitProbe ==
    /\ searchResults = <<>>
    /\ failedSources = {}
    /\ speedTests = {}
    /\ selection = NoCall
    /\ q = NoQuery
    /\ detail = NullRef
    /\ loading = TRUE
    /\ error = NoError
    /\ allSourcesLoaded = FALSE
    /\ controller = 0
    /\ aborted = {}
    /\ inits = <<>>
    /\ _cachedSources = [url \in Urls |-> NoEntry]
    /\ _preloadTestAbortController = 0
    /\ probes = <<>>
    /\ player = InitialPlayer
    /\ timers = {}
    /\ tasks = {}
    /\ toasts = <<>>
    /\ saves = {}
    /\ videoErrors = <<>>
    /\ refs = NoRefs
    /\ onErrors = <<>>
    /\ cache = <<>>
    /\ cacheOps = <<>>
    /\ clock = 0

NextProbe ==
    \/ \E url \in Urls : ProbeStart(url)
    \/ \E k \in ProbeCalls, status \in Statuses : ProbeResponds(k, status)
    \/ \E k \in ProbeCalls : ProbeFails(k)
    \/ \E k \in ProbeCalls : ProbeAborted(k)
    \/ \E k \in ProbeCalls : ProbeTimeout(k)
    \/ \E k \in ProbeCalls : FetchSettles(k)
    \/ \E d \in {ShortTick, FiveMinutes} : Tick(d)

SpecProbe == InitProbe /\ [][NextProbe]_vars

\* the probe with at most MaxOverlap calls
MaxOverlap == 2

NextProbePair ==
    \/ \E url \in Urls : Len(probes) < MaxOverlap /\ ProbeStart(url)
    \/ \E k \in ProbeCalls, status \in Statuses : ProbeResponds(k, status)
    \/ \E k \in ProbeCalls : ProbeFails(k)
    \/ \E k \in ProbeCalls : ProbeAborted(k)
    \/ \E k \in ProbeCalls : ProbeTimeout(k)
    \/ \E k \in ProbeCalls : FetchSettles(k)
    \/ \E d \in {ShortTick, FiveMinutes} : Tick(d)

SpecProbePair == InitProbe /\ [][NextProbePair]_vars

\* the calls that issued a network fetch
Fetched(k) == probes[k].fetch # "none"

\* the call was answered from the cache
FromCache(k) == probes[k].pc = "done" /\ probes[k].fetch = "none"

(***************************************************************************)
(* C7: two probes of one url less than 5 minutes apart issue one fetch     *)
(* between them, whatever the outcome of the first and whether or not it   *)
(* has finished; a probe 5 minutes or more after the cached measurement    *)
(* issues a new fetch.                                                     *)
(***************************************************************************)
C7_OneFetchWithinFiveMinutes ==
    \A j, k \in ProbeCalls :
        j < k /\ probes[j].url = probes[k].url =>
            /\ probes[k].now - probes[j].now < FiveMinutes
                   => ~(Fetched(j) /\ Fetched(k))
            /\ (probes[k].cachedSource.present
                /\ probes[k].now - probes[k].cachedSource.timestamp > FiveMinutes)
                   => Fetched(k)

(***************************************************************************)
(* C8: a probe answered from the cache returns the verdict that the probe  *)
(* which wrote the cache entry returned.                                   *)
(***************************************************************************)
C8_CachedVerdictSame ==
    \A j, k \in ProbeCalls :
        (/\ FromCache(k)
         /\ probes[j].pc = "done"
         /\ probes[j].fetch = "settled"
         /\ probes[j].url = probes[k].url
         /\ Entry(probes[j].now, probes[j].responseTime) = probes[k].cachedSource)
            => probes[k].ret = probes[j].ret

(***************************************************************************)
(* C9: every probe that completed after a fetch, an HTTP error, a network  *)
(* error, a timeout or an abort included, has an entry for its url in      *)
(* _cachedSources.                                                         *)
(***************************************************************************)
C9_CompletedProbeCached ==
    \A k \in ProbeCalls :
        probes[k].pc = "done" /\ Fetched(k) => _cachedSources[probes[k].url].present

(***************************************************************************)
(* C10: at most one probe fetch is in flight and not aborted.              *)
(***************************************************************************)
C10_SingleFlight ==
    Cardinality({k \in ProbeCalls : probes[k].fetch = "inflight"}) <= 1

(***************************************************************************)
(* C11: _preloadAndTestSource never rejects; a call whose fetch ended in   *)
(* an HTTP error, a network error, the 7 s timeout or an abort resolves    *)
(* to false.                                                               *)
(***************************************************************************)
C11_NeverRejects ==
    \A k \in ProbeCalls :
        /\ probes[k].promise # "rejected"
        /\ probes[k].thrown # "none" =>
               probes[k].promise = "resolved" /\ probes[k].ret = FALSE

C11_Witness ==
    \E i, j \in ProbeCalls :
        /\ probes[i].thrown = "AbortError"
        /\ probes[j].thrown \in {"HTTP error", "network error", "Preload timeout"}
        /\ probes[i].promise = "resolved"
        /\ probes[j].promise = "resolved"

(***************************************************************************)
(* SearchCacheManager of the search screen.  cache is the Map as the       *)
(* sequence of its entries in insertion order.  The later variant of the   *)
(* class is modelled (capacity 15, timeout 10 minutes; the earlier one     *)
(* has 10 and 5 minutes and the same get and set), with the capacity       *)
(* scaled down to maxCacheItems.                                           *)
(***************************************************************************)
maxCacheItems == 2
cacheTimeout == 600000      \* 10 * 60 * 1000

QuerySeq == <<"q1", "q2", "q3", "q4", "q5">>
Queries == {QuerySeq[i] : i \in 1..(maxCacheItems + 1)}

\* the results and total handed to set
Payloads == {[results |-> <<"r1">>, total |-> 1],
             [results |-> <<"r1", "r2">>, total |-> 7]}

\* the instants around the timeout at which the clock is observed
CacheInstants == {0, 1, cacheTimeout - 1, cacheTimeout}

Keys(c) == {c[i].query : i \in 1..Len(c)}

\* Map.prototype.get, NullRef for undefined
MapGet(c, query) ==
    IF query \in Keys(c)
    THEN c[CHOOSE i \in 1..Len(c) : c[i].query = query]
    ELSE NullRef

\* Map.prototype.delete
MapDelete(c, query) == SelectSeq(c, LAMBDA e : e.query # query)

\* Map.prototype.set: a key that is present keeps its place
MapSet(c, entry) ==
    IF entry.query \in Keys(c)
    THEN [i \in 1..Len(c) |-> IF c[i].query = entry.query THEN entry ELSE c[i]]
    ELSE Append(c, entry)

Fresh_TimeoutInclusive(cached, now) ==
    cached # NullRef /\ now - cached.timestamp <= cacheTimeout

\* cached && Date.now() - cached.timestamp < this.cacheTimeout
Fresh(cached, now) ==
    cached # NullRef /\ now - cached.timestamp < cacheTimeout

\* the value get returns
GetResult(c, query, now) ==
    IF Fresh(MapGet(c, query), now) THEN MapGet(c, query) ELSE NullRef

\* the cache after get
AfterGet(c, query, now) ==
    IF Fresh(MapGet(c, query), now) THEN c
    ELSE IF MapGet(c, query) # NullRef THEN MapDelete(c, query)
    ELSE c

AfterSet_NoEviction(c, query, results, total, now) ==
    MapSet(c, [query |-> query, results |-> results, total |-> total, timestamp |-> now])

\* the cache after set
AfterSet(c, query, results, total, now) ==
    LET evicted == IF Len(c) >= maxCacheItems /\ Len(c) > 0
                   THEN MapDelete(c, c[1].query)
                   ELSE c
    IN  MapSet(evicted,
               [query |-> query, results |-> results, total |-> total, timestamp |-> now])

\* the keys of the Map in insertion order
KeySeq(c) == [i \in 1..Len(c) |-> c[i].query]

\* the record of a call: its arguments, the keys before it and its return value
CacheOp(kind, query, payload, ret) ==
    [kind |-> kind, query |-> query, results |-> payload.results, total |-> payload.total,
     at |-> clock, before |-> KeySeq(cache), ret |-> ret]

Logged(op) ==
    cacheOps' = IF Len(cacheOps) = 2 THEN <<cacheOps[2], op>> ELSE Append(cacheOps, op)

\* SearchCacheManager.get(query)
CacheManagerGet(query) ==
    /\ cache' = AfterGet(cache, query, clock)
    /\ Logged(CacheOp("get", query, [results |-> <<>>, total |-> 0],
                      GetResult(cache, query, clock)))
    /\ UNCHANGED <<selectVars, detailVars, probeVars, playerVars>>

\* SearchCacheManager.set(query, results, total)
CacheManagerSet(query, payload) ==
    /\ cache' = AfterSet(cache, query, payload.results, payload.total, clock)
    /\ Logged(CacheOp("set", query, payload, NullRef))
    /\ UNCHANGED <<selectVars, detailVars, probeVars, playerVars>>

\* SearchCacheManager.clear()
CacheManagerClear ==
    /\ cache # <<>>
    /\ cache' = <<>>
    /\ Logged(CacheOp("clear", "q1", [results |-> <<>>, total |-> 0], NullRef))
    /\ UNCHANGED <<selectVars, detailVars, probeVars, playerVars>>

\* time passes
CacheTick(d) ==
    /\ clock + d \in CacheInstants
    /\ clock' = clock + d
    /\ UNCHANGED <<_cachedSources, _preloadTestAbortController, probes, selectVars,
                   detailVars, cacheVars, playerVars>>

InitCache ==
    /\ searchResults = <<>>
    /\ failedSources = {}
    /\ speedTests = {}
    /\ selection = NoCall
    /\ q = NoQuery
    /\ detail = NullRef
    /\ loading = TRUE
    /\ error = NoError
    /\ allSourcesLoaded = FALSE
    /\ controller = 0
    /\ aborted = {}
    /\ inits = <<>>
    /\ _cachedSources = [url \in Urls |-> NoEntry]
    /\ _preloadTestAbortController = 0
    /\ probes = <<>>
    /\ player = InitialPlayer
    /\ timers = {}
    /\ tasks = {}
    /\ toasts = <<>>
    /\ saves = {}
    /\ videoErrors = <<>>
    /\ refs = NoRefs
    /\ onErrors = <<>>
    /\ cache = <<>>
    /\ cacheOps = <<>>
    /\ clock = 0

NextCache ==
    \/ \E query \in Queries : CacheManagerGet(query)
    \/ \E query \in Queries, payload \in Payloads : CacheManagerSet(query, payload)
    \/ CacheManagerClear
    \/ \E d \in {1, cacheTimeout - 1} : CacheTick(d)

SpecCache == InitCache /\ [][NextCache]_vars

(***************************************************************************)
(* C12: a get(q) that follows set(q, results, total) returns those results *)
(* and that total when less than the timeout has elapsed; when the timeout *)
(* has elapsed it returns null and the cache has no entry for q.           *)
(***************************************************************************)
C12_GetAfterSet ==
    (/\ Len(cacheOps) = 2
     /\ cacheOps[1].kind = "set"
     /\ cacheOps[2].kind = "get"
     /\ cacheOps[1].query = cacheOps[2].query)
        => IF cacheOps[2].at - cacheOps[1].at < cacheTimeout
           THEN /\ cacheOps[2].ret # NullRef
                /\ cacheOps[2].ret.results = cacheOps[1].results
                /\ cacheOps[2].ret.total = cacheOps[1].total
           ELSE /\ cacheOps[2].ret = NullRef
                /\ cacheOps[2].query \notin Keys(cache)

C12_Witness ==
    /\ Len(cacheOps) = 2
    /\ cacheOps[1].kind = "set"
    /\ cacheOps[1].results # <<>>
    /\ cacheOps[2].kind = "get"
    /\ cacheOps[1].query = cacheOps[2].query
    /\ cacheOps[2].at - cacheOps[1].at = cacheTimeout
    /\ \E i \in 1..Len(cacheOps[2].before) : cacheOps[2].before[i] = cacheOps[2].query
    /\ Len(cache) = 1

(***************************************************************************)
(* C13: the cache never holds more than maxCacheItems entries, and a set   *)
(* at full capacity removes the entry inserted earliest among those        *)
(* present, and no other.                                                  *)
(***************************************************************************)
C13_CapacityOldestFirst ==
    /\ Len(cache) <= maxCacheItems
    /\ \A i \in 1..Len(cacheOps) :
          LET op == cacheOps[i]
              after == IF i < Len(cacheOps) THEN cacheOps[i + 1].before ELSE KeySeq(cache)
              others(keys) == SelectSeq(keys, LAMBDA k : k # op.query)
              range(keys) == {keys[k] : k \in 1..Len(keys)}
          IN  op.kind = "set" /\ Len(op.before) = maxCacheItems =>
                  /\ range(after) = range(Tail(op.before)) \cup {op.query}
                  /\ others(after) = others(Tail(op.before))

C13_Witness ==
    /\ Len(cacheOps) = 2
    /\ cacheOps[2].kind = "set"
    /\ Len(cacheOps[2].before) = maxCacheItems
    /\ \A i \in 1..maxCacheItems : cacheOps[2].before[i] # cacheOps[2].query
    /\ cacheOps[2].before[1] \notin Keys(cache)
    /\ Len(cache) = maxCacheItems

(***************************************************************************)
(* The player store during playback.  The operators below take and return *)
(* a world w: the variables that the handlers of the player store read and *)
(* write, so that a handler which calls another one is the composition of  *)
(* the two.                                                                *)
(***************************************************************************)
World ==
    [player |-> player, timers |-> timers, tasks |-> tasks, toasts |-> toasts,
     saves |-> saves, videoErrors |-> videoErrors, refs |-> refs, onErrors |-> onErrors,
     detail |-> detail,
     searchResults |-> searchResults, failedSources |-> failedSources,
     speedTests |-> speedTests]

CommitWorld(w) ==
    /\ player' = w.player
    /\ timers' = w.timers
    /\ tasks' = w.tasks
    /\ toasts' = w.toasts
    /\ saves' = w.saves
    /\ videoErrors' = w.videoErrors
    /\ refs' = w.refs
    /\ onErrors' = w.onErrors
    /\ detail' = w.detail
    /\ searchResults' = w.searchResults
    /\ failedSources' = w.failedSources
    /\ speedTests' = w.speedTests

\* what a handler of the player store leaves alone
PlayerFrame ==
    UNCHANGED <<selection, q, loading, error, allSourcesLoaded, controller, aborted, inits,
                _cachedSources, _preloadTestAbortController, probes, cacheVars>>

\* a number that is neither undefined nor 0
Truthy(x) == x # Undefined /\ x # 0

\* Toast.show
Toast(w, kind) == [w EXCEPT !.toasts = Append(@, kind)]

\* setTimeout(callback, delay): the callback and the variables it closes over
SetTimeout(w, timer) == [w EXCEPT !.timers = @ \cup {timer}]

\* clearTimeout that leaves the timer pending
ClearTimeout_Keeps(w, kind, id) == w

\* clearTimeout(id): the ids of the model are the creation times of each kind
ClearTimeout(w, kind, id) ==
    [w EXCEPT !.timers = {t \in @ : ~(t.kind = kind /\ t.id = id)}]

\* an AVPlaybackStatus
PlaybackStatus(isLoaded, hasError, isPlaying, isBuffering, position, duration, finished) ==
    [isLoaded |-> isLoaded, error |-> hasError, isPlaying |-> isPlaying,
     isBuffering |-> isBuffering, positionMillis |-> position,
     durationMillis |-> duration, didJustFinish |-> finished]

\* status?.isLoaded
IsLoaded(status) == status # NullRef /\ status.isLoaded

markSourceAsFailed_Replaces(w, source) == [w EXCEPT !.failedSources = {source}]

\* detailStore.markSourceAsFailed(source, reason)
markSourceAsFailed(w, source) == [w EXCEPT !.failedSources = @ \cup {source}]

\* the measureNetworkSpeed calls that getNextAvailableSource starts
SpeedTestsStarted(results, failed, currentSource, episodeIndex) ==
    LET availableSources == AvailableSources(results, failed, currentSource, episodeIndex)
    IN  {[source |-> availableSources[i].source, now |-> clock] :
            i \in {k \in 1..Len(availableSources) : NeedsSpeedTest(availableSources[k])}}

\* detailStore.getNextAvailableSource called by the player store: its effect
NextAvailableSourceAsked(w, currentSource, episodeIndex) ==
    [w EXCEPT !.speedTests = @ \cup SpeedTestsStarted(w.searchResults, w.failedSources,
                                                       currentSource, episodeIndex)]

\* episodes.map((ep, index) => ({url: ep, title: ...index + 1...}))
MappedEpisodes(episodes) ==
    [i \in 1..Len(episodes) |-> [url |-> episodes[i], title |-> i]]

\* array[index] is not undefined
HasIndex(array, index) == index >= 0 /\ index < Len(array)

\* handleVideoError that drops the episodes when there is no fallback
handleVideoError_DropsEpisodes(w, errorType, failedUrl) ==
    LET status == w.player.status
        currentEpisodeIndex == w.player.currentEpisodeIndex
        currentPosition == IF IsLoaded(status) /\ Truthy(status.positionMillis)
                           THEN status.positionMillis ELSE 0
        w1 == [w EXCEPT !.videoErrors = Append(@, errorType)]
    IN  IF w.detail = NullRef THEN [w1 EXCEPT !.player.isLoading = FALSE]
        ELSE LET currentSource == w.detail.source
                 w2 == markSourceAsFailed(w1, currentSource)
                 fallbackSource == SelectedSource(w2.searchResults, w2.failedSources,
                                                  currentSource, currentEpisodeIndex)
                 w3 == NextAvailableSourceAsked(w2, currentSource, currentEpisodeIndex)
             IN  IF fallbackSource = NullRef
                 THEN [Toast(w3, "exhausted") EXCEPT !.player.isLoading = FALSE,
                                                     !.player.episodes = <<>>]
                 ELSE [w3 EXCEPT !.detail = fallbackSource,
                                 !.tasks = @ \cup {[kind |-> "handleVideoError",
                                                    fallbackSource |-> fallbackSource,
                                                    currentPosition |-> currentPosition,
                                                    currentEpisodeIndex |-> currentEpisodeIndex,
                                                    at |-> clock]}]

\* handleVideoError up to its return or its await of setDetail
handleVideoError(w, errorType, failedUrl) ==
    LET status == w.player.status
        currentEpisodeIndex == w.player.currentEpisodeIndex
        currentPosition == IF IsLoaded(status) /\ Truthy(status.positionMillis)
                           THEN status.positionMillis ELSE 0
        w1 == [w EXCEPT !.videoErrors = Append(@, errorType)]
    IN  IF w.detail = NullRef THEN [w1 EXCEPT !.player.isLoading = FALSE]
        ELSE LET currentSource == w.detail.source
                 w2 == markSourceAsFailed(w1, currentSource)
                 fallbackSource == SelectedSource(w2.searchResults, w2.failedSources,
                                                  currentSource, currentEpisodeIndex)
                 w3 == NextAvailableSourceAsked(w2, currentSource, currentEpisodeIndex)
             IN  IF fallbackSource = NullRef
                 THEN [Toast(w3, "exhausted") EXCEPT !.player.isLoading = FALSE]
                 ELSE [w3 EXCEPT !.detail = fallbackSource,
                                 !.tasks = @ \cup {[kind |-> "handleVideoError",
                                                    fallbackSource |-> fallbackSource,
                                                    currentPosition |-> currentPosition,
                                                    currentEpisodeIndex |-> currentEpisodeIndex,
                                                    at |-> clock]}]

\* handleVideoError after setDetail resolved
VideoErrorSwitched(w, task) ==
    LET newEpisodes == task.fallbackSource.episodes
        w1 == [w EXCEPT !.tasks = @ \ {task}]
    IN  IF Len(newEpisodes) > task.currentEpisodeIndex
        THEN Toast([w1 EXCEPT !.player.episodes = MappedEpisodes(newEpisodes),
                              !.player.initialPosition = task.currentPosition,
                              !.player.isLoading = FALSE], "switched")
        ELSE [w1 EXCEPT !.player.isLoading = FALSE]

\* handleVideoError after setDetail rejected
VideoErrorSwitchFailed(w, task) ==
    [w EXCEPT !.tasks = @ \ {task}, !.player.isLoading = FALSE]

BufferingDelay == 20000
RecentSeekWindow == 10000
StillRecentSeekWindow == 15000
RetryLimit == 3
RetrySeekThreshold == 10000
ThrottleDelay == 10000
SeekingDelay == 1000

\* the record PlayRecordManager.save is called with, and when
SavedRecord(w, immediate) ==
    [at |-> clock, immediate |-> immediate, source |-> w.detail.source,
     index |-> w.player.currentEpisodeIndex + 1,
     play_time |-> w.player.status.positionMillis \div 1000]

\* _savePlayRecord that does not test the throttle flag
SavePlayRecord_Unthrottled(w, immediate) ==
    LET p == w.player
        w1 == IF immediate THEN w
              ELSE SetTimeout([w EXCEPT !.player._isRecordSaveThrottled = TRUE],
                              [kind |-> "throttle", id |-> clock, due |-> clock + ThrottleDelay])
    IN  IF w.detail # NullRef /\ IsLoaded(p.status)
        THEN [w1 EXCEPT !.saves = @ \cup {SavedRecord(w, immediate)}]
        ELSE w1

\* _savePlayRecord(updates, {immediate})
SavePlayRecord(w, immediate) ==
    LET p == w.player
        w1 == IF immediate THEN w
              ELSE SetTimeout([w EXCEPT !.player._isRecordSaveThrottled = TRUE],
                              [kind |-> "throttle", id |-> clock, due |-> clock + ThrottleDelay])
    IN  IF ~immediate /\ p._isRecordSaveThrottled THEN w
        ELSE IF w.detail # NullRef /\ IsLoaded(p.status)
             THEN [w1 EXCEPT !.saves = @ \cup {SavedRecord(w, immediate)}]
             ELSE w1

\* playEpisode(index) up to its await of replayAsync
playEpisode(w, index) ==
    IF HasIndex(w.player.episodes, index)
    THEN [w EXCEPT !.player.currentEpisodeIndex = index,
                   !.player.showNextEpisodeOverlay = FALSE,
                   !.player.initialPosition = 0,
                   !.player.progressPosition = <<0, 1>>,
                   !.player.seekPosition = <<0, 1>>,
                   !.tasks = @ \cup {[kind |-> "playEpisode", at |-> clock]}]
    ELSE w

\* now - _lastSeekTime, Infinity when there was no seek, is below the window
SeekedWithin(lastSeekTime, now, window) ==
    Truthy(lastSeekTime) /\ now - lastSeekTime < window

\* the callback of the 20 s timer of handlePlaybackStatusUpdate
BufferingEscalation(w, timer) ==
    LET p == w.player
        currentStatus == p.status
        stillRecentlySeeked == SeekedWithin(p._lastSeekTime, timer.now, StillRecentSeekWindow)
    IN  IF /\ IsLoaded(currentStatus)
           /\ ~currentStatus.isPlaying
           /\ ~p.isUserPaused
           /\ ~stillRecentlySeeked
           /\ currentStatus.positionMillis > 0
           /\ currentStatus.isBuffering
           /\ timer.detail
           /\ p._bufferingRetryCount < RetryLimit
        THEN LET w1 == [w EXCEPT !.player._bufferingRetryCount = @ + 1]
             IN  IF HasIndex(p.episodes, timer.currentEpisodeIndex)
                    /\ p._bufferingRetryCount >= 2
                 THEN handleVideoError(w1, "network",
                                       p.episodes[timer.currentEpisodeIndex + 1].url)
                 ELSE w1
        ELSE w

\* the buffering detection without the test of isUserPaused
BufferingDetection_IgnoresPause(w, newStatus) ==
    LET p == w.player
        now == clock
        isBuffering ==
            /\ newStatus.isLoaded
            /\ ~newStatus.isPlaying
            /\ ~SeekedWithin(p._lastSeekTime, now, RecentSeekWindow)
            /\ newStatus.positionMillis > 0
            /\ newStatus.durationMillis > 0
            /\ newStatus.isBuffering
        w1 == IF newStatus.isPlaying /\ p.isUserPaused
              THEN [w EXCEPT !.player.isUserPaused = FALSE] ELSE w
    IN  IF isBuffering
        THEN IF ~Truthy(p._bufferingStartTime)
             THEN SetTimeout(
                      [w1 EXCEPT !.player._bufferingStartTime = now,
                                 !.player._bufferingRetryCount = 0,
                                 !.player._bufferingTimeout = now],
                      [kind |-> "buffering", id |-> now, due |-> now + BufferingDelay,
                       now |-> now, detail |-> w.detail # NullRef,
                       currentEpisodeIndex |-> p.currentEpisodeIndex])
             ELSE w1
        ELSE LET w2 == IF Truthy(p._bufferingStartTime)
                       THEN [w1 EXCEPT !.player._bufferingStartTime = Undefined,
                                       !.player._bufferingRetryCount = 0]
                       ELSE w1
             IN  IF p._bufferingTimeout # Undefined
                 THEN [ClearTimeout(w2, "buffering", p._bufferingTimeout)
                          EXCEPT !.player._bufferingTimeout = Undefined]
                 ELSE w2

\* handlePlaybackStatusUpdate: the buffering detection of a loaded status
BufferingDetection(w, newStatus) ==
    LET p == w.player
        now == clock
        isBuffering ==
            /\ newStatus.isLoaded
            /\ ~newStatus.isPlaying
            /\ ~p.isUserPaused
            /\ ~SeekedWithin(p._lastSeekTime, now, RecentSeekWindow)
            /\ newStatus.positionMillis > 0
            /\ newStatus.durationMillis > 0
            /\ newStatus.isBuffering
        w1 == IF newStatus.isPlaying /\ p.isUserPaused
              THEN [w EXCEPT !.player.isUserPaused = FALSE] ELSE w
    IN  IF isBuffering
        THEN IF ~Truthy(p._bufferingStartTime)
             THEN SetTimeout(
                      [w1 EXCEPT !.player._bufferingStartTime = now,
                                 !.player._bufferingRetryCount = 0,
                                 !.player._bufferingTimeout = now],
                      [kind |-> "buffering", id |-> now, due |-> now + BufferingDelay,
                       now |-> now, detail |-> w.detail # NullRef,
                       currentEpisodeIndex |-> p.currentEpisodeIndex])
             ELSE w1
        ELSE LET w2 == IF Truthy(p._bufferingStartTime)
                       THEN [w1 EXCEPT !.player._bufferingStartTime = Undefined,
                                       !.player._bufferingRetryCount = 0]
                       ELSE w1
             IN  IF p._bufferingTimeout # Undefined
                 THEN [ClearTimeout(w2, "buffering", p._bufferingTimeout)
                          EXCEPT !.player._bufferingTimeout = Undefined]
                 ELSE w2

\* a handler of statuses that are not loaded which only stores the status
StatusNotLoaded_Deferred(w, newStatus) == [w EXCEPT !.player.status = newStatus]

\* handlePlaybackStatusUpdate of a status that is not loaded
StatusNotLoaded(w, newStatus) ==
    LET p == w.player
        w1 == IF p._bufferingTimeout # Undefined
              THEN [ClearTimeout(w, "buffering", p._bufferingTimeout)
                       EXCEPT !.player._bufferingTimeout = Undefined]
              ELSE w
        w2 == [w1 EXCEPT !.player._bufferingStartTime = Undefined]
        w3 == IF newStatus.error /\ HasIndex(p.episodes, p.currentEpisodeIndex)
                 /\ w.detail # NullRef
              THEN handleVideoError(w2, "other", p.episodes[p.currentEpisodeIndex + 1].url)
              ELSE w2
    IN  [w3 EXCEPT !.player.status = newStatus]

\* handlePlaybackStatusUpdate of a loaded status, after the buffering detection
StatusLoaded(w, w0, newStatus) ==
    LET p == w0.player
        lastEpisode == ~(p.currentEpisodeIndex < Len(p.episodes) - 1)
        atOutro == /\ Truthy(p.outroStartTime)
                   /\ Truthy(newStatus.durationMillis)
                   /\ newStatus.positionMillis >= newStatus.durationMillis - p.outroStartTime
        isNearEnd == 100 * newStatus.positionMillis > 95 * newStatus.durationMillis
        w1 == IF w0.detail # NullRef /\ Truthy(newStatus.durationMillis)
              THEN [SavePlayRecord(w, FALSE) EXCEPT !.player.showNextEpisodeOverlay =
                        isNearEnd /\ ~lastEpisode /\ ~Truthy(p.outroStartTime)]
              ELSE w
        w2 == IF newStatus.didJustFinish /\ ~lastEpisode
              THEN playEpisode(w1, p.currentEpisodeIndex + 1) ELSE w1
    IN  IF atOutro /\ ~lastEpisode THEN playEpisode(w, p.currentEpisodeIndex + 1)
        ELSE [w2 EXCEPT !.player.status = newStatus,
                        !.player.progressPosition =
                            IF Truthy(newStatus.durationMillis)
                            THEN <<newStatus.positionMillis, newStatus.durationMillis>>
                            ELSE <<0, 1>>]

\* playerStore.handlePlaybackStatusUpdate(newStatus)
handlePlaybackStatusUpdate(w, newStatus) ==
    IF newStatus.isLoaded
    THEN StatusLoaded(BufferingDetection(w, newStatus), w, newStatus)
    ELSE StatusNotLoaded(w, newStatus)

MaxToasts == 2          \* Toast.show calls
MaxVideoErrors == 2     \* handleVideoError calls
MaxTasks == 1           \* async calls suspended at one time
HorizonSteps == 3       \* the clock runs for HorizonSteps * TickStep
\* the clock advances by half the buffering delay
TickStep == BufferingDelay \div 2
\* Date.now() when playback starts
Epoch == 10 * TickStep

\* the statuses the video component reports
LoadedStatus(isPlaying, isBuffering, positionMillis, durationMillis, didJustFinish) ==
    PlaybackStatus(TRUE, FALSE, isPlaying, isBuffering, positionMillis, durationMillis,
                   didJustFinish)

\* the video component reports a status
StatusUpdate(newStatus) ==
    /\ newStatus.error => Len(videoErrors) < MaxVideoErrors /\ Len(toasts) < MaxToasts
    /\ CommitWorld(handlePlaybackStatusUpdate(World, newStatus))
    /\ PlayerFrame
    /\ UNCHANGED clock

Due(kind) == {t \in timers : t.kind = kind /\ t.due <= clock}

Fired(timer) == [World EXCEPT !.timers = @ \ {timer}]

\* the 20 s timer of the buffering detection fires
BufferingTimeoutFires(timer) ==
    /\ timer \in Due("buffering")
    /\ Len(videoErrors) < MaxVideoErrors
    /\ Len(toasts) < MaxToasts
    /\ CommitWorld(BufferingEscalation(Fired(timer), timer))
    /\ PlayerFrame
    /\ UNCHANGED clock

\* the 10 s timer of _savePlayRecord fires
ThrottleTimeoutFires(timer) ==
    /\ timer \in Due("throttle")
    /\ CommitWorld([Fired(timer) EXCEPT !.player._isRecordSaveThrottled = FALSE])
    /\ PlayerFrame
    /\ UNCHANGED clock

\* the 1 s timer of seek fires
SeekTimeoutFires(timer) ==
    /\ timer \in Due("seek")
    /\ CommitWorld([Fired(timer) EXCEPT !.player.isSeeking = FALSE])
    /\ PlayerFrame
    /\ UNCHANGED clock

Suspend(w, task) == [w EXCEPT !.tasks = @ \cup {task}]

Resumed(task) == [World EXCEPT !.tasks = @ \ {task}]

Suspended(kind) == {t \in tasks : t.kind = kind}

\* togglePlayPause up to its await of pauseAsync or playAsync
togglePlayPause ==
    /\ IsLoaded(player.status)
    /\ Cardinality(tasks) < MaxTasks
    /\ CommitWorld(Suspend(World, [kind |-> "togglePlayPause",
                                   isPlaying |-> player.status.isPlaying, at |-> clock]))
    /\ PlayerFrame
    /\ UNCHANGED clock

\* pauseAsync or playAsync resolved
PlayPauseDone(task) ==
    /\ task \in Suspended("togglePlayPause")
    /\ CommitWorld([Resumed(task) EXCEPT !.player.isUserPaused = task.isPlaying])
    /\ PlayerFrame
    /\ UNCHANGED clock

\* pauseAsync or playAsync rejected
PlayPauseFailed(task) ==
    /\ task \in Suspended("togglePlayPause")
    /\ Len(toasts) < MaxToasts
    /\ CommitWorld(Toast(Resumed(task), "toggleFailed"))
    /\ PlayerFrame
    /\ UNCHANGED clock

Min(a, b) == IF a < b THEN a ELSE b
Max(a, b) == IF a > b THEN a ELSE b

\* seek(duration) up to its await of setPositionAsync
seek(duration) ==
    /\ IsLoaded(player.status)
    /\ Truthy(player.status.durationMillis)
    /\ Cardinality(tasks) < MaxTasks
    /\ CommitWorld(Suspend(World,
           [kind |-> "seek", at |-> clock,
            durationMillis |-> player.status.durationMillis,
            newPosition |-> Max(0, Min(player.status.positionMillis + duration,
                                       player.status.durationMillis))]))
    /\ PlayerFrame
    /\ UNCHANGED clock

\* seek after its try block
SeekTail(w, task) ==
    SetTimeout(
        [(IF w.player._seekTimeout # Undefined
          THEN ClearTimeout(w, "seek", w.player._seekTimeout) ELSE w)
            EXCEPT !.player.isSeeking = TRUE,
                   !.player.seekPosition = <<task.newPosition, task.durationMillis>>,
                   !.player._seekTimeout = clock],
        [kind |-> "seek", id |-> clock, due |-> clock + SeekingDelay])

\* setPositionAsync resolved
SeekDone(task) ==
    /\ task \in Suspended("seek")
    /\ CommitWorld(SeekTail([Resumed(task) EXCEPT !.player._lastSeekTime = clock], task))
    /\ PlayerFrame
    /\ UNCHANGED clock

\* setPositionAsync rejected
SeekFailed(task) ==
    /\ task \in Suspended("seek")
    /\ Len(toasts) < MaxToasts
    /\ CommitWorld(SeekTail(Toast(Resumed(task), "seekFailed"), task))
    /\ PlayerFrame
    /\ UNCHANGED clock

\* the user picks an episode
PlayEpisode(index) ==
    /\ Cardinality(tasks) < MaxTasks
    /\ CommitWorld(playEpisode(World, index))
    /\ PlayerFrame
    /\ UNCHANGED clock

\* replayAsync resolved
ReplayDone(task) ==
    /\ task \in Suspended("playEpisode")
    /\ CommitWorld(Resumed(task))
    /\ PlayerFrame
    /\ UNCHANGED clock

\* replayAsync rejected
ReplayFailed(task) ==
    /\ task \in Suspended("playEpisode")
    /\ Len(toasts) < MaxToasts
    /\ CommitWorld(Toast(Resumed(task), "playFailed"))
    /\ PlayerFrame
    /\ UNCHANGED clock

\* setDetail resolved inside handleVideoError
SetDetailDone(task) ==
    /\ task \in Suspended("handleVideoError")
    /\ CommitWorld(VideoErrorSwitched(World, task))
    /\ PlayerFrame
    /\ UNCHANGED clock

\* setDetail rejected inside handleVideoError
SetDetailFailed(task) ==
    /\ task \in Suspended("handleVideoError")
    /\ CommitWorld(VideoErrorSwitchFailed(World, task))
    /\ PlayerFrame
    /\ UNCHANGED clock

ThirtyMinutes == 1800000    \* 30 * 60 * 1000

\* playerStore.reset()
reset ==
    /\ player' = [InitialPlayer EXCEPT !.currentEpisodeIndex = 0,
                                       !.isSeeking = player.isSeeking,
                                       !.seekPosition = player.seekPosition,
                                       !.progressPosition = player.progressPosition,
                                       !._isRecordSaveThrottled = player._isRecordSaveThrottled]
    /\ timers' = {t \in timers :
                    /\ ~(t.kind = "seek" /\ t.id = player._seekTimeout)
                    /\ ~(t.kind = "buffering" /\ t.id = player._bufferingTimeout)}
    /\ probes' = IF _preloadTestAbortController # 0
                    /\ probes[_preloadTestAbortController].fetch = "inflight"
                 THEN [probes EXCEPT ![_preloadTestAbortController].fetch = "aborted"]
                 ELSE probes
    /\ _preloadTestAbortController' = 0
    /\ _cachedSources' =
           [url \in DOMAIN _cachedSources |->
               IF _cachedSources[url].present
                  /\ clock - _cachedSources[url].timestamp > ThirtyMinutes
               THEN NoEntry ELSE _cachedSources[url]]
    /\ UNCHANGED <<tasks, toasts, saves, videoErrors, refs, onErrors, selectVars,
                   detailVars, cacheVars, clock>>

\* the next instant of the grid, or the next timer when it is due earlier
NextInstant ==
    LET grid == ((clock \div TickStep) + 1) * TickStep
        dues == {t.due : t \in {u \in timers : u.due > clock}}
    IN  IF dues = {} THEN grid
        ELSE Min(grid, CHOOSE d \in dues : \A e \in dues : d <= e)

\* time passes, no further than the next timer
PlayerTick ==
    /\ \A t \in timers : t.due > clock
    /\ NextInstant <= Epoch + HorizonSteps * TickStep
    /\ clock' = NextInstant
    /\ UNCHANGED <<_cachedSources, _preloadTestAbortController, probes, selectVars,
                   detailVars, cacheVars, playerVars>>

\* the episode URLs of the title that is being played
PlayingUrls == {EpisodeUrl(SourceSeq[i], e) : i \in 1..MaxResults, e \in 1..MaxEpisodes}

\* the search results of a title that is being played
PlayingResults(n) ==
    [i \in 1..n |-> SearchResult(SourceSeq[i], 1, "t1", MaxEpisodes, R720p,
                                 Unmeasured, Unmeasured)]

\* the stores, the player's fields aside, after init and loadVideo of a title
\* with the given search results completed
PlaybackStoresOf(results) ==
    /\ searchResults = results
    /\ failedSources = {}
    /\ speedTests = {}
    /\ selection = NoCall
    /\ q = "t1"
    /\ detail = searchResults[1]
    /\ loading = FALSE
    /\ error = NoError
    /\ allSourcesLoaded = TRUE
    /\ controller = 1
    /\ aborted = {}
    /\ inits = <<[NewInit("t1", NoSource) EXCEPT !.pc = "done"]>>
    /\ _cachedSources = [url \in PlayingUrls |-> NoEntry]
    /\ _preloadTestAbortController = 0
    /\ probes = <<>>
    /\ timers = {}
    /\ tasks = {}
    /\ toasts = <<>>
    /\ saves = {}
    /\ videoErrors = <<>>
    /\ refs = NoRefs
    /\ onErrors = <<>>
    /\ cache = <<>>
    /\ cacheOps = <<>>
    /\ clock = Epoch

PlaybackStores == \E n \in 1..MaxResults : PlaybackStoresOf(PlayingResults(n))

\* the player while the first episode of the first result plays
PlayingPlayer ==
    [InitialPlayer EXCEPT !.episodes = MappedEpisodes(searchResults[1].episodes),
                          !.currentEpisodeIndex = 0,
                          !.isLoading = FALSE]

\* the stores after init and loadVideo of a title completed
InitPlayback == PlaybackStores /\ player = PlayingPlayer

BufferingInputs ==
    {LoadedStatus(TRUE, FALSE, 30000, 60000, FALSE),
     LoadedStatus(FALSE, FALSE, 30000, 60000, FALSE),
     LoadedStatus(FALSE, TRUE, 30000, 60000, FALSE)}

NextBuffering ==
    \/ \E newStatus \in BufferingInputs : StatusUpdate(newStatus)
    \/ \E timer \in timers : BufferingTimeoutFires(timer)
    \/ \E timer \in timers : ThrottleTimeoutFires(timer)
    \/ \E timer \in timers : SeekTimeoutFires(timer)
    \/ togglePlayPause
    \/ \E task \in tasks : PlayPauseDone(task)
    \/ \E duration \in {-10000} : seek(duration)
    \/ \E task \in tasks : SeekDone(task)
    \/ PlayerTick

SpecBuffering == InitPlayback /\ [][NextBuffering]_vars

MaxLoads == 1           \* loadVideo calls suspended at one time

\* what a step of loadVideo leaves alone
LoadFrame ==
    UNCHANGED <<selection, q, loading, error, allSourcesLoaded, controller, aborted, inits,
                cacheVars, clock>>

ProbeFrame == UNCHANGED <<_cachedSources, _preloadTestAbortController, probes>>

\* episodesSelectorBySource(source)(state)
episodesSelectorBySource(results, source) ==
    LET found == SelectSeq(results, LAMBDA r : r.source = source)
    IN  IF Len(found) = 0 THEN <<>> ELSE found[1].episodes

\* the play record and the player settings that the storage returns
StoredRecords ==
    {[play_time |-> 0, introEndTime |-> Undefined, outroStartTime |-> Undefined],
     [play_time |-> 30, introEndTime |-> 5000, outroStartTime |-> 5000]}

\* loadVideo({source, id, episodeIndex, position, title}) for the title whose
\* detail is loaded, where init is skipped: up to its first await
loadVideoWithin(limit, source, episodeIndex, position, title) ==
    LET episodes == episodesSelectorBySource(searchResults, detail.source)
        call == [kind |-> "loadVideo", at |-> clock, pc |-> "storage",
                 episodeIndex |-> episodeIndex, position |-> position,
                 detail |-> detail, episodes |-> episodes, probe |-> 0,
                 fallbackSource |-> NullRef]
        w == [World EXCEPT !.player.isLoading = TRUE]
    IN  /\ detail # NullRef
        /\ Len(episodes) > 0
        /\ detail.title = title
        /\ Cardinality(Suspended("loadVideo")) < limit
        /\ IF Len(episodes) > episodeIndex
              /\ player._preloadingEpisode # episodes[episodeIndex + 1]
           THEN /\ Len(probes) < MaxProbes
                /\ ProbeCall(episodes[episodeIndex + 1])
                /\ CommitWorld(Suspend(
                       [w EXCEPT !.player._preloadingEpisode = episodes[episodeIndex + 1]],
                       [call EXCEPT !.pc = "probe", !.probe = Len(probes) + 1]))
           ELSE /\ ProbeFrame
                /\ CommitWorld(Suspend(w, call))
        /\ LoadFrame

loadVideo(source, episodeIndex, position, title) ==
    loadVideoWithin(MaxLoads, source, episodeIndex, position, title)

\* loadVideo after the preload: the next episode is preloaded 1 s later, the
\* finally block clears _preloadingEpisode, the storage is read
AfterPreload(w, call) ==
    LET w1 == IF Len(call.episodes) > call.episodeIndex + 1
              THEN SetTimeout(w, [kind |-> "preloadNext", id |-> clock,
                                  due |-> clock + SeekingDelay,
                                  episodeIndex |-> call.episodeIndex,
                                  url |-> call.episodes[call.episodeIndex + 2]])
              ELSE w
    IN  Suspend([w1 EXCEPT !.player._preloadingEpisode = NoUrl],
                [call EXCEPT !.pc = "storage"])

\* the catch and finally blocks of the preload, then the storage is read
PreloadCaught(w, call) ==
    Suspend([w EXCEPT !.player._preloadingEpisode = NoUrl], [call EXCEPT !.pc = "storage"])

LoadCalls(pc) == {t \in Suspended("loadVideo") : t.pc = pc}

ProbeDone(call) == probes[call.probe].pc = "done"

\* the probe of the current source returned
LoadVideoProbed(call) ==
    /\ call \in LoadCalls("probe")
    /\ ProbeDone(call)
    /\ LET isSourceGood == probes[call.probe].ret
           w == Resumed(call)
           fallbackSource == SelectedSource(searchResults, failedSources,
                                            call.detail.source, call.episodeIndex)
           asked == NextAvailableSourceAsked(w, call.detail.source, call.episodeIndex)
       IN  IF isSourceGood
           THEN CommitWorld(AfterPreload(w, call)) /\ ProbeFrame
           ELSE IF fallbackSource # NullRef
                   /\ Len(fallbackSource.episodes) > call.episodeIndex
                THEN /\ Len(probes) < MaxProbes
                     /\ ProbeCall(fallbackSource.episodes[call.episodeIndex + 1])
                     /\ CommitWorld(Suspend(asked,
                            [call EXCEPT !.pc = "probeFallback",
                                         !.probe = Len(probes) + 1,
                                         !.fallbackSource = fallbackSource]))
                ELSE CommitWorld(AfterPreload(asked, call)) /\ ProbeFrame
    /\ LoadFrame

\* the probe of the fallback source returned: setDetail(fallbackSource) up to
\* its await when the fallback is good
LoadVideoFallbackProbed(call) ==
    /\ call \in LoadCalls("probeFallback")
    /\ ProbeDone(call)
    /\ LET isFallbackGood == probes[call.probe].ret
           w == Resumed(call)
       IN  IF isFallbackGood
           THEN CommitWorld(Suspend([w EXCEPT !.detail = call.fallbackSource],
                                    [call EXCEPT !.pc = "setDetail"]))
           ELSE CommitWorld(AfterPreload(w, call))
    /\ ProbeFrame
    /\ LoadFrame

\* loadVideo after setDetail resolved: detail = fallbackSource, then
\* markSourceAsFailed(detail.source, 'preload_failed')
PreloadSwitched(w, call) ==
    LET detail_ == call.fallbackSource
    IN  markSourceAsFailed(w, detail_.source)

\* setDetail resolved inside loadVideo
LoadVideoSetDetailDone(call) ==
    /\ call \in LoadCalls("setDetail")
    /\ CommitWorld(AfterPreload(PreloadSwitched(Resumed(call), call),
                                [call EXCEPT !.episodes = call.fallbackSource.episodes,
                                             !.detail = call.fallbackSource]))
    /\ ProbeFrame
    /\ LoadFrame

\* setDetail rejected inside loadVideo
LoadVideoSetDetailFailed(call) ==
    /\ call \in LoadCalls("setDetail")
    /\ CommitWorld(PreloadCaught(Resumed(call), call))
    /\ ProbeFrame
    /\ LoadFrame

\* the callback of the 1 s timer of loadVideo probes the next episode
PreloadNextFires(timer) ==
    /\ timer \in Due("preloadNext")
    /\ IF player.currentEpisodeIndex = timer.episodeIndex
       THEN Len(probes) < MaxProbes /\ ProbeCall(timer.url)
       ELSE ProbeFrame
    /\ CommitWorld(Fired(timer))
    /\ LoadFrame

\* PlayRecordManager.get and PlayerSettingsManager.get resolved
LoadVideoStored(call, record) ==
    /\ call \in LoadCalls("storage")
    /\ CommitWorld([Resumed(call) EXCEPT
           !.player.isLoading = FALSE,
           !.player.currentEpisodeIndex = call.episodeIndex,
           !.player.initialPosition = IF Truthy(call.position) THEN call.position
                                      ELSE record.play_time * 1000,
           !.player.episodes = MappedEpisodes(call.episodes),
           !.player.introEndTime = record.introEndTime,
           !.player.outroStartTime = record.outroStartTime])
    /\ ProbeFrame
    /\ LoadFrame

\* PlayRecordManager.get or PlayerSettingsManager.get rejected
LoadVideoStorageFailed(call) ==
    /\ call \in LoadCalls("storage")
    /\ CommitWorld([Resumed(call) EXCEPT !.player.isLoading = FALSE])
    /\ ProbeFrame
    /\ LoadFrame

FailoverInputs ==
    {PlaybackStatus(FALSE, TRUE, FALSE, FALSE, 0, 0, FALSE),
     LoadedStatus(TRUE, FALSE, 30000, 60000, FALSE)}

\* the steps of loading and failover that happen before a timer is due: one
\* loadVideo call at a time, whose probes are neither aborted nor timed out
NextFailover ==
    \/ \E newStatus \in FailoverInputs : StatusUpdate(newStatus)
    \/ \E task \in tasks : SetDetailDone(task)
    \/ \E task \in tasks : SetDetailFailed(task)
    \/ \E index \in 0..(MaxEpisodes - 1) : loadVideo(detail.source, index, 0, q)
    \/ \E call \in tasks : LoadVideoProbed(call)
    \/ \E call \in tasks : LoadVideoFallbackProbed(call)
    \/ \E call \in tasks : LoadVideoSetDetailDone(call)
    \/ \E call \in tasks : LoadVideoSetDetailFailed(call)
    \/ \E call \in tasks, record \in StoredRecords : LoadVideoStored(call, record)
    \/ \E call \in tasks : LoadVideoStorageFailed(call)
    \/ \E k \in ProbeCalls, status \in Statuses : ProbeResponds(k, status)
    \/ \E k \in ProbeCalls : ProbeFails(k)
    \/ \E test \in speedTests : measureNetworkSpeedFailed(test)

SpecFailover == InitPlayback /\ [][NextFailover]_vars

\* buffering and pausing, without seeks
NextPause ==
    \/ \E newStatus \in BufferingInputs : StatusUpdate(newStatus)
    \/ \E timer \in timers : BufferingTimeoutFires(timer)
    \/ \E timer \in timers : ThrottleTimeoutFires(timer)
    \/ togglePlayPause
    \/ \E task \in tasks : PlayPauseDone(task)
    \/ PlayerTick

SpecPause == InitPlayback /\ [][NextPause]_vars

\* playback errors and the switch of handleVideoError
ErrorInputs ==
    FailoverInputs \cup {PlaybackStatus(FALSE, FALSE, FALSE, FALSE, 0, 0, FALSE),
                         LoadedStatus(TRUE, FALSE, 58000, 60000, FALSE)}

NextErrors ==
    \/ \E newStatus \in ErrorInputs : StatusUpdate(newStatus)
    \/ \E task \in tasks : SetDetailDone(task)
    \/ \E task \in tasks : SetDetailFailed(task)
    \/ \E index \in 0..(MaxEpisodes - 1) : PlayEpisode(index)
    \/ \E task \in tasks : ReplayDone(task)
    \/ \E task \in tasks : ReplayFailed(task)
    \/ \E test \in speedTests : measureNetworkSpeedFailed(test)

SpecErrors == InitPlayback /\ [][NextErrors]_vars

\* the calls of handleVideoError with the given error type
ErrorCalls(errorType) == {i \in 1..Len(videoErrors) : videoErrors[i] = errorType}

BufferingTimers == {t \in timers : t.kind = "buffering"}

\* the stored status is loaded, not playing and buffering at a nonzero position
StatusBuffering ==
    /\ IsLoaded(player.status)
    /\ ~player.status.isPlaying
    /\ player.status.isBuffering
    /\ player.status.positionMillis > 0
    /\ player.status.durationMillis > 0

\* the buffering recorded at _bufferingStartTime has lasted more than 20 s,
\* the user neither paused nor sought, and every timer that was due has fired
StalledOverTwentySeconds ==
    /\ StatusBuffering
    /\ Truthy(player._bufferingStartTime)
    /\ clock - player._bufferingStartTime > BufferingDelay
    /\ ~player.isUserPaused
    /\ ~Truthy(player._lastSeekTime)
    /\ tasks = {}

\* C14: when the status ticks have stayed loaded, not playing and buffering
\* at a nonzero position for more than 20 seconds, with no seek and no user
\* pause, handleVideoError has been invoked by the buffering path exactly once.
C14_StallFailsOverOnce ==
    StalledOverTwentySeconds => Cardinality(ErrorCalls("network")) = 1

\* C15: over any step that starts and ends with isUserPaused true, a status
\* tick or a timer callback, no 20-second timer is armed and the buffering path
\* makes no handleVideoError call.
C15_PausedNeverEscalates ==
    [][player.isUserPaused /\ player'.isUserPaused
          => /\ BufferingTimers' \subseteq BufferingTimers
             /\ ErrorCalls("network")' = ErrorCalls("network")]_vars

\* a buffering status was reported while the user had paused: nothing is armed
C15_Witness ==
    /\ player.isUserPaused
    /\ StatusBuffering
    /\ BufferingTimers = {}
    /\ ~Truthy(player._bufferingStartTime)

SessionInputs == {PlaybackStatus(FALSE, TRUE, FALSE, FALSE, 0, 0, FALSE)}

\* playback fails, the player is reset, init is called for a title
NextSession ==
    \/ \E newStatus \in SessionInputs : StatusUpdate(newStatus)
    \/ \E task \in tasks : SetDetailDone(task)
    \/ \E task \in tasks : SetDetailFailed(task)
    \/ reset
    \/ \E query \in Titles, preferred \in Resources \cup {NoSource} :
          InitStart(query, preferred)
    \/ abort
    \/ \E c \in Calls : \E results \in SearchVideoResponses(inits[c].preferred, inits[c].q) :
          PreferredResponds(c, results)
    \/ \E c \in Calls : PreferredFails(c)
    \/ \E c \in Calls : \E resolution \in DetectedResolutions :
          PreferredDetected(c, resolution)
    \/ \E c \in Calls : \E allResults \in SearchVideosResponses :
          FallbackResponds(c, allResults)
    \/ \E c \in Calls : FallbackFails(c)
    \/ \E c \in Calls : \E resolution \in DetectedResolutions :
          FallbackDetected(c, resolution)
    \/ \E c \in Calls : \E allResults \in SearchVideosResponses :
          BackgroundResponds(c, allResults)
    \/ \E c \in Calls : BackgroundFails(c)
    \/ \E c \in Calls : \E resolution \in DetectedResolutions :
          BackgroundDetected(c, resolution)
    \/ \E c \in Calls : FavoriteChecked(c)
    \/ \E c \in Calls : \E enabledResources \in SUBSET Resources :
          ResourcesRespond(c, enabledResources)
    \/ \E c \in Calls : ResourcesFail(c)
    \/ \E c \in Calls, r \in Resources : \E results \in SearchVideoResponses(r, inits[c].q) :
          SourceResponds(c, r, results)
    \/ \E c \in Calls, r \in Resources : SourceFails(c, r)
    \/ \E c \in Calls, r \in Resources : \E resolution \in DetectedResolutions :
          SourceDetected(c, r, resolution)

SpecSession == InitPlayback /\ [][NextSession]_vars

\* C16: whenever a detail is selected and episodes are loaded, the source of
\* the detail is not in failedSources.
C16_CurrentSourceNotFailed ==
    detail # NullRef /\ Len(player.episodes) > 0 => detail.source \notin failedSources

\* C17: no step removes a source from failedSources.
C17_FailedSourcesOnlyGrows == [][failedSources \subseteq failedSources']_vars

\* two sources were marked one after the other
C17_Witness == Cardinality(failedSources) >= 2

\* getNextAvailableSource would return null once the current source is marked
NoFallback ==
    /\ detail # NullRef
    /\ SelectedSource(searchResults, failedSources \cup {detail.source}, detail.source,
                      player.currentEpisodeIndex) = NullRef

\* C19: a step in which handleVideoError is called while no fallback exists
\* leaves detail, episodes, currentEpisodeIndex and initialPosition unchanged.
C19_NoFallbackKeepsPlayback ==
    [][NoFallback /\ Len(videoErrors') > Len(videoErrors)
          => /\ detail' = detail
             /\ player'.episodes = player.episodes
             /\ player'.currentEpisodeIndex = player.currentEpisodeIndex
             /\ player'.initialPosition = player.initialPosition]_vars

Exhausted == {i \in 1..Len(toasts) : toasts[i] = "exhausted"}

\* handleVideoError found no fallback for a source that plays from a restored
\* position
C19_Witness ==
    /\ Len(toasts) \in Exhausted
    /\ detail # NullRef
    /\ Len(player.episodes) > 0
    /\ player.initialPosition > 0

\* C20: the failure of all sources is shown to the user at most once, however
\* often the error is reported.
C20_ExhaustedSurfacedOnce == Cardinality(Exhausted) <= 1

\* playerStore.reset() was called while a status was stored
ResetStep == player.status # NullRef /\ player'.status = NullRef

\* C18: a step that starts a new session, a call of detailStore.init or of
\* playerStore.reset, leaves failedSources empty.
C18_NewSessionClearsFailed ==
    [][Len(inits') > Len(inits) \/ ResetStep => failedSources' = {}]_vars

\* the handleVideoError calls that await setDetail
Switching == Suspended("handleVideoError")

\* C21: a handleVideoError call that switches takes the position last recorded
\* by a loaded status as the position to restore, also when the stored status
\* is no longer loaded, and the switch sets initialPosition to it.
C21_SwitchRestoresPosition ==
    [][/\ \A t \in Switching' \ Switching :
              player.progressPosition[1] > 0 =>
                  t.currentPosition = player.progressPosition[1]
       /\ \A t \in Switching \ Switching' :
              player'.episodes # player.episodes =>
                  player'.initialPosition = t.currentPosition]_vars

\* C22: when no handleVideoError call is suspended, the episodes are those of
\* detail: a call never ends with detail switched and the episodes not remapped,
\* also when setDetail rejects.
C22_SwitchAllOrNothing ==
    (Switching = {} /\ detail # NullRef) =>
        player.episodes = MappedEpisodes(detail.episodes)

\* ---- the Video component's onLoad handler (search.tsx)

\* onLoad up to its first await; initialPosition and introEndTime are the
\* store's values the handler was rendered with
onLoad ==
    /\ Cardinality(tasks) < MaxTasks
    /\ LET jumpPosition == IF Truthy(player.initialPosition) THEN player.initialPosition
                           ELSE IF Truthy(player.introEndTime) THEN player.introEndTime
                           ELSE 0
       IN  CommitWorld(Suspend(World,
               [kind |-> "onLoad", at |-> clock, jumpPosition |-> jumpPosition,
                pc |-> IF jumpPosition > 0 THEN "setPositionAsync" ELSE "playAsync"]))
    /\ PlayerFrame
    /\ UNCHANGED clock

\* setPositionAsync resolved: onLoad awaits playAsync
OnLoadPositioned(task) ==
    /\ task \in Suspended("onLoad")
    /\ task.pc = "setPositionAsync"
    /\ CommitWorld(Suspend(Resumed(task), [task EXCEPT !.pc = "playAsync"]))
    /\ PlayerFrame
    /\ UNCHANGED clock

\* playAsync resolved
OnLoadPlayed(task) ==
    /\ task \in Suspended("onLoad")
    /\ task.pc = "playAsync"
    /\ CommitWorld([Resumed(task) EXCEPT !.player.isLoading = FALSE])
    /\ PlayerFrame
    /\ UNCHANGED clock

\* setPositionAsync or playAsync rejected
OnLoadFailed(task) ==
    /\ task \in Suspended("onLoad")
    /\ CommitWorld([Resumed(task) EXCEPT !.player.isLoading = FALSE])
    /\ PlayerFrame
    /\ UNCHANGED clock

\* the Video component's onLoadStart
onLoadStart ==
    /\ HasIndex(player.episodes, player.currentEpisodeIndex)
    /\ CommitWorld([World EXCEPT !.player.isLoading = TRUE])
    /\ PlayerFrame
    /\ UNCHANGED clock

\* resume positions and intro ends a video is loaded with
OnLoadPositions == {0, 30000, 90000}
OnLoadIntros == {Undefined, 0, 30000, 60000}

InitOnLoad ==
    /\ PlaybackStores
    /\ \E initialPosition \in OnLoadPositions, introEndTime \in OnLoadIntros :
           player = [PlayingPlayer EXCEPT !.initialPosition = initialPosition,
                                          !.introEndTime = introEndTime,
                                          !.isLoading = TRUE]

NextOnLoad ==
    \/ onLoadStart
    \/ onLoad
    \/ \E task \in tasks : OnLoadPositioned(task)
    \/ \E task \in tasks : OnLoadPlayed(task)
    \/ \E task \in tasks : OnLoadFailed(task)

SpecOnLoad == InitOnLoad /\ [][NextOnLoad]_vars

\* C23: the position onLoad seeks to is the larger of initialPosition and
\* introEndTime: the intro end when the resume position lies before it.
C23_OnLoadSeeksLarger ==
    \A task \in Suspended("onLoad") :
        task.pc = "setPositionAsync" =>
            task.jumpPosition = Max(player.initialPosition, player.introEndTime)

\* the init calls whose controller a later init has aborted
Superseded == {c \in Calls : c \in aborted /\ c # controller}

\* C24: no step of a superseded init call changes searchResults, detail,
\* error, loading or allSourcesLoaded.
C24_SupersededChangesNothing ==
    [][\A c \in Superseded : inits'[c] # inits[c] => Store' = Store]_vars

\* C25: no state has allSourcesLoaded true while loading is true.
C25_LoadedImpliesNotLoading == ~(allSourcesLoaded /\ loading)

C25_Witness == allSourcesLoaded /\ ~loading /\ Len(searchResults) > 0

\* the calls of the current session that went through the standard fan-out
\* to their end and were not aborted
FanoutEnded ==
    {c \in Calls : /\ c = controller
                   /\ c \notin aborted
                   /\ inits[c].pc = "done"
                   /\ inits[c].preferred = NoSource
                   /\ \E r \in Resources : inits[c].fan[r] # "none"}

\* C27: a standard fan-out that ended has an error naming the query exactly
\* when no enabled source returned a result; otherwise error is null and
\* searchResults is not empty.
C27_ErrorIffAllSourcesEmpty ==
    \A c \in FanoutEnded :
        IF inits[c].totalResults = 0
        THEN error # NoError /\ error.q = inits[c].q
        ELSE error = NoError /\ Len(searchResults) > 0

\* ---- the play record: throttled and immediate saves

\* setIntroEndTime()
setIntroEndTime ==
    /\ IsLoaded(player.status)
    /\ detail # NullRef
    /\ Len(toasts) < MaxToasts
    /\ CommitWorld(
           IF Truthy(player.introEndTime)
           THEN Toast(SavePlayRecord([World EXCEPT !.player.introEndTime = Undefined], TRUE),
                      "introCleared")
           ELSE Toast(SavePlayRecord([World EXCEPT !.player.introEndTime =
                                          player.status.positionMillis], TRUE),
                      "introSet"))
    /\ PlayerFrame
    /\ UNCHANGED clock

\* setOutroStartTime()
setOutroStartTime ==
    /\ IsLoaded(player.status)
    /\ detail # NullRef
    /\ Truthy(player.outroStartTime) \/ Truthy(player.status.durationMillis)
    /\ Len(toasts) < MaxToasts
    /\ CommitWorld(
           IF Truthy(player.outroStartTime)
           THEN Toast(SavePlayRecord([World EXCEPT !.player.outroStartTime = Undefined], TRUE),
                      "outroCleared")
           ELSE Toast(SavePlayRecord([World EXCEPT !.player.outroStartTime =
                                          player.status.durationMillis
                                              - player.status.positionMillis], TRUE),
                      "outroSet"))
    /\ PlayerFrame
    /\ UNCHANGED clock

SaveInputs ==
    {LoadedStatus(TRUE, FALSE, 30000, 60000, FALSE),
     LoadedStatus(TRUE, FALSE, 45000, 60000, FALSE)}

\* status ticks of a playing video save the record while the user sets and
\* clears the intro end
NextSaves ==
    \/ \E newStatus \in SaveInputs : StatusUpdate(newStatus)
    \/ \E timer \in timers : ThrottleTimeoutFires(timer)
    \/ setIntroEndTime
    \/ PlayerTick

SpecSaves == InitPlayback /\ [][NextSaves]_vars

\* a step of setIntroEndTime or of setOutroStartTime
MarkerStep ==
    /\ Len(toasts') = Len(toasts) + 1
    /\ toasts'[Len(toasts')] \in {"introSet", "introCleared", "outroSet", "outroCleared"}

ThrottledSaves == {s \in saves : ~s.immediate}

\* C28: two saves that are not immediate are at least 10 s apart, and a call
\* with immediate: true saves whatever the throttle flag is.
C28_SavesThrottled ==
    /\ [](\A s1 \in ThrottledSaves, s2 \in ThrottledSaves :
              s1 # s2 => (s1.at - s2.at >= ThrottleDelay \/ s2.at - s1.at >= ThrottleDelay))
    /\ [][MarkerStep => \E s \in saves' : s.immediate /\ s.at = clock]_vars

C28_Witness ==
    /\ player._isRecordSaveThrottled
    /\ \E s1 \in ThrottledSaves, s2 \in ThrottledSaves : s2.at - s1.at >= ThrottleDelay
    /\ \E s \in saves, s1 \in ThrottledSaves :
           s.immediate /\ s.at >= s1.at /\ s.at < s1.at + ThrottleDelay

\* ---- reset and the timers

\* an episode is loaded and played, its record is saved, the next episode is
\* preloaded 1 s later, and the user leaves the player
NextReset ==
    \/ loadVideo(detail.source, 0, 0, q)
    \/ \E call \in tasks : LoadVideoProbed(call)
    \/ \E call \in tasks, record \in StoredRecords : LoadVideoStored(call, record)
    \/ \E k \in ProbeCalls : ProbeResponds(k, 200)
    \/ \E k \in ProbeCalls : ProbeAborted(k)
    \/ \E k \in ProbeCalls : ProbeTimeout(k)
    \/ \E timer \in timers : PreloadNextFires(timer)
    \/ \E newStatus \in {LoadedStatus(TRUE, FALSE, 30000, 60000, FALSE)} : StatusUpdate(newStatus)
    \/ \E timer \in timers : ThrottleTimeoutFires(timer)
    \/ reset
    \/ PlayerTick

SpecReset == InitPlayback /\ [][NextReset]_vars

\* C26: reset leaves no timer pending, so that no callback scheduled before it
\* fires afterwards.
C26_ResetCancelsTimers == [][ResetStep => timers' = {}]_vars

\* ---- seeking

SeekInputs == {LoadedStatus(TRUE, FALSE, 5000, 12000, FALSE)}

\* the user seeks back and forth in a short video during the first ten
\* seconds, and leaves
NextSeek ==
    \/ \E newStatus \in SeekInputs : StatusUpdate(newStatus)
    \/ \E duration \in {-10000, 10000} : seek(duration)
    \/ \E task \in tasks : SeekDone(task)
    \/ \E task \in tasks : SeekFailed(task)
    \/ \E timer \in timers : SeekTimeoutFires(timer)
    \/ \E timer \in timers : ThrottleTimeoutFires(timer)
    \/ reset
    \/ clock < Epoch + TickStep /\ PlayerTick

SpecSeek == InitPlayback /\ [][NextSeek]_vars

\* C29: the position a seek asks for lies in [0, durationMillis], seekPosition
\* lies in [0, 1], and while isSeeking is set the timer that clears it is
\* pending and due within 1 s.
C29_SeekClampedAndTransient ==
    /\ \A task \in Suspended("seek") : task.newPosition \in 0..task.durationMillis
    /\ player.seekPosition[1] \in 0..player.seekPosition[2]
    /\ player.isSeeking =>
           \E timer \in timers : timer.kind = "seek" /\ timer.due <= clock + SeekingDelay

\* the first attempt of the buffering ladder was made, the buffering goes on
\* without pause or seek, and no 20 s timer is pending
LadderStopped ==
    /\ StatusBuffering
    /\ Truthy(player._bufferingStartTime)
    /\ player._bufferingRetryCount >= 1
    /\ ~player.isUserPaused
    /\ ~Truthy(player._lastSeekTime)
    /\ tasks = {}
    /\ BufferingTimers = {}

\* C30: _bufferingRetryCount never exceeds 3, and a buffering episode that goes
\* on after an attempt of the ladder has the next attempt pending, or has
\* reached the call of handleVideoError('network').
C30_LadderReachesFailover ==
    /\ player._bufferingRetryCount <= RetryLimit
    /\ LadderStopped => ErrorCalls("network") # {}

\* ---- buffering that ends

ResumeInputs ==
    {LoadedStatus(FALSE, TRUE, 30000, 60000, FALSE),
     LoadedStatus(TRUE, FALSE, 45000, 60000, FALSE)}

\* the video stalls at 30 s and plays again at 45 s
NextResume ==
    \/ \E newStatus \in ResumeInputs : StatusUpdate(newStatus)
    \/ \E timer \in timers : BufferingTimeoutFires(timer)
    \/ \E timer \in timers : ThrottleTimeoutFires(timer)
    \/ PlayerTick

SpecResume == InitPlayback /\ [][NextResume]_vars

StatusPlaying == IsLoaded(player.status) /\ player.status.isPlaying

\* C31: the step that stores a playing status while buffering was recorded
\* clears _bufferingStartTime, resets _bufferingRetryCount and leaves no
\* buffering timer pending; no buffering timer is pending while the stored
\* status is playing, so that none fires after the buffering has ended.
C31_PlayingClearsBuffering ==
    /\ [][Truthy(player._bufferingStartTime) /\ StatusPlaying'
             => /\ player'._bufferingStartTime = Undefined
                /\ player'._bufferingRetryCount = 0
                /\ BufferingTimers' = {}]_vars
    /\ [](StatusPlaying => BufferingTimers = {})

\* the video plays at 45 s after the play record was saved during the stall at
\* 30 s, and the buffering state is cleared
C31_Witness ==
    /\ StatusPlaying
    /\ player.status.positionMillis = 45000
    /\ \E s \in saves : s.play_time = 30
    /\ player._bufferingStartTime = Undefined
    /\ BufferingTimers = {}

\* ---- the end of an episode

\* a title of one source with one episode more than MaxEpisodes
SeriesResults ==
    <<SearchResult("s1", 1, "t1", MaxEpisodes + 1, R720p, Unmeasured, Unmeasured)>>

\* the outro marker the play record of the title holds
OutroMarkers == {Undefined, 15000}

InitAdvance ==
    /\ PlaybackStoresOf(SeriesResults)
    /\ \E outroStartTime \in OutroMarkers :
           player = [PlayingPlayer EXCEPT !.outroStartTime = outroStartTime]

\* playing before the outro, playing inside it, and finished
AdvanceInputs ==
    {LoadedStatus(TRUE, FALSE, 30000, 60000, FALSE),
     LoadedStatus(TRUE, FALSE, 50000, 60000, FALSE),
     LoadedStatus(FALSE, FALSE, 60000, 60000, TRUE)}

\* the status ticks around the end of an episode
NextAdvance ==
    \/ \E newStatus \in AdvanceInputs : StatusUpdate(newStatus)
    \/ \E task \in tasks : ReplayDone(task)
    \/ \E task \in tasks : ReplayFailed(task)
    \/ \E timer \in timers : ThrottleTimeoutFires(timer)
    \/ clock < Epoch + TickStep /\ PlayerTick

SpecAdvance == InitAdvance /\ [][NextAdvance]_vars

\* C32: a tick that changes currentEpisodeIndex moves it to the next episode
\* and leaves initialPosition, progressPosition and seekPosition at 0; on the
\* last episode no tick changes currentEpisodeIndex.
C32_AutoAdvanceResets ==
    [][/\ player'.currentEpisodeIndex # player.currentEpisodeIndex =>
              /\ player'.currentEpisodeIndex = player.currentEpisodeIndex + 1
              /\ player'.initialPosition = 0
              /\ player'.progressPosition[1] = 0
              /\ player'.seekPosition[1] = 0
       /\ ~(player.currentEpisodeIndex < Len(player.episodes) - 1) =>
              player'.currentEpisodeIndex = player.currentEpisodeIndex]_vars

\* C39: while the replayAsync of an advance is pending, so that the next
\* episode has not reported a status yet, no tick advances currentEpisodeIndex
\* again.
C39_AdvancesOnce ==
    [][Suspended("playEpisode") # {} =>
           player'.currentEpisodeIndex = player.currentEpisodeIndex]_vars

\* the init calls that are suspended on the background search or on the
\* processing of its results
AwaitingBackground == {c \in Calls : inits[c].pc \in {"bgSearch", "bgDetect"}}

\* C33: init does not wait for the background fan-out that follows a preferred
\* source with results: no call is suspended on it.
C33_BackgroundDoesNotBlock == AwaitingBackground = {}

\* a playback error reported while the player is buffering
DirectErrorInputs ==
    {LoadedStatus(FALSE, TRUE, 30000, 60000, FALSE),
     PlaybackStatus(FALSE, TRUE, FALSE, FALSE, 0, 0, FALSE)}

NextDirectError ==
    \/ \E newStatus \in DirectErrorInputs : StatusUpdate(newStatus)
    \/ \E timer \in timers : BufferingTimeoutFires(timer)
    \/ \E timer \in timers : ThrottleTimeoutFires(timer)
    \/ \E task \in tasks : SetDetailDone(task)
    \/ \E task \in tasks : SetDetailFailed(task)
    \/ PlayerTick

SpecDirectError == InitPlayback /\ [][NextDirectError]_vars

\* the stored status is not loaded and carries an error
StatusFailed == player.status # NullRef /\ ~player.status.isLoaded /\ player.status.error

\* C34: the step that stores a status with isLoaded false and an error, while
\* the current episode and the detail exist, calls handleVideoError('other')
\* in that step and leaves no buffering timer pending.
C34_DirectErrorFailsOver ==
    [][/\ ~StatusFailed
        /\ StatusFailed'
        /\ HasIndex(player.episodes, player.currentEpisodeIndex)
        /\ detail # NullRef
        => /\ videoErrors' = Append(videoErrors, "other")
           /\ BufferingTimers' = {}
           /\ player'._bufferingTimeout = Undefined
           /\ player'._bufferingStartTime = Undefined]_vars

\* the error arrived 10 s into the buffering, in the instant a buffering
\* status was saved, before the buffering timer is due
C34_Witness ==
    /\ StatusFailed
    /\ videoErrors = <<"other">>
    /\ clock = Epoch + TickStep
    /\ \E s \in saves : s.at = clock /\ s.play_time = 30
    /\ BufferingTimers = {}

\* C35: the step of loadVideo that marks a source after the probe of the
\* current source failed and the probe of the fallback succeeded adds the
\* original source to failedSources, and does not add the fallback.
C35_PreloadMarksOriginal ==
    [][\A call \in LoadCalls("setDetail") :
          call \notin tasks' /\ failedSources' # failedSources
          => /\ call.detail.source \in failedSources'
             /\ call.fallbackSource.source \notin failedSources' \ failedSources]_vars

\* the sources of the search results that list the URL among their episodes
SourcesOfUrl(url) ==
    {searchResults[i].source : i \in {j \in 1..Len(searchResults) :
        \E e \in 1..Len(searchResults[j].episodes) : searchResults[j].episodes[e] = url}}

\* C36: a step in which a playback error is reported for the URL of the
\* current episode adds to failedSources only a source that URL belongs to,
\* also while an earlier handleVideoError call for the same URL is suspended.
C36_MarksSourceOfFailedUrl ==
    [][failedSources' # failedSources
          => failedSources' \ failedSources
                 \subseteq SourcesOfUrl(player.episodes[player.currentEpisodeIndex + 1].url)]_vars

MaxLoadOverlap == 2         \* loadVideo calls that overlap

\* loadVideo calls that overlap: every call probes its episode, every probe is
\* answered with 200 and every read of the storage resolves, so that probes
\* lists the calls in the order they were made
NextLoads ==
    \/ \E index \in 0..(MaxEpisodes - 1) :
           loadVideoWithin(MaxLoadOverlap, detail.source, index, 0, q)
    \/ \E k \in ProbeCalls : ProbeResponds(k, 200)
    \/ \E call \in tasks : LoadVideoProbed(call)
    \/ \E call \in tasks, record \in StoredRecords : LoadVideoStored(call, record)

SpecLoads == InitPlayback /\ [][NextLoads]_vars

\* the episodeIndex of the loadVideo call that was made last
LastLoadedIndex == probes[Len(probes)].url[2] - 1

\* C37: once the loadVideo calls that were made have finished,
\* currentEpisodeIndex is the episodeIndex of the call that was made last.
C37_LaterLoadWins ==
    Len(probes) > 0 /\ Suspended("loadVideo") = {}
        => player.currentEpisodeIndex = LastLoadedIndex

(***************************************************************************)
(* onError of useVideoHandlers: the in-place reloads before the failover.  *)
(***************************************************************************)
KeyChars == 50          \* url.substring(0, 50)
MaxRetries == 2
RetryDelay == 1000
ToastDebounce == 3000

LongPrefix == 60        \* characters of an s1 URL before the part naming the episode
ShortPrefix == 20       \* the same for the URLs of the other sources
MaxOnErrors == 4        \* onError calls

\* the characters of an episode URL of the source that come before the part
\* that tells the episodes apart
PrefixChars(src) == IF src = SourceSeq[1] THEN LongPrefix ELSE ShortPrefix

\* currentEpisode.url.substring(0, 50): the first 50 characters hold the part
\* naming the episode only when the prefix is shorter
UrlKey(url) == IF PrefixChars(url[1]) >= KeyChars THEN <<url[1], 0>> ELSE <<url[1], url[2]>>

\* ref.current[key] || 0
RefGet(map, key) == IF key \in DOMAIN map THEN map[key] ELSE 0

\* ref.current[key] = value
RefSet(map, key, value) ==
    [k \in DOMAIN map \cup {key} |-> IF k = key THEN value ELSE map[k]]

\* delete ref.current[key]
RefDelete(map, key) == [k \in DOMAIN map \ {key} |-> map[k]]

\* onError(error), where the error string gives errorType
onError(w, errorType) ==
    LET url == w.player.episodes[w.player.currentEpisodeIndex + 1].url
        urlKey == UrlKey(url)
        currentRetries == RefGet(w.refs.retryCountRef, urlKey) + 1
        lastErrorTime == RefGet(w.refs.lastErrorTimeRef, urlKey)
        currentTime == clock
        showToast == currentTime - lastErrorTime > ToastDebounce
        w1 == [w EXCEPT !.refs.retryCountRef = RefSet(@, urlKey, currentRetries),
                        !.refs.lastErrorTimeRef = RefSet(@, urlKey, currentTime),
                        !.onErrors = Append(@, [url |-> url,
                                                retried |-> currentRetries <= MaxRetries])]
        w2 == IF w.refs.retryTimerRef # 0
              THEN ClearTimeout(w1, "retry", w.refs.retryTimerRef) ELSE w1
    IN  IF currentRetries <= MaxRetries
        THEN LET id == w.refs.nextTimeoutId
                 w3 == SetTimeout([w2 EXCEPT !.refs.retryTimerRef = id,
                                             !.refs.nextTimeoutId = id + 1],
                                  [kind |-> "retry", id |-> id, due |-> clock + RetryDelay,
                                   url |-> url, errorType |-> errorType])
             IN  IF currentRetries = 1 /\ showToast THEN Toast(w3, "retrying") ELSE w3
        ELSE LET w3 == [w2 EXCEPT !.refs.retryCountRef = RefDelete(@, urlKey)]
                 w4 == IF showToast THEN Toast(w3, "failed") ELSE w3
             IN  handleVideoError(w4, errorType, url)

\* the video component reports an error to onError
OnError(errorType) ==
    /\ HasIndex(player.episodes, player.currentEpisodeIndex)
    /\ Len(onErrors) < MaxOnErrors
    /\ Len(videoErrors) < MaxVideoErrors
    /\ CommitWorld(onError(World, errorType))
    /\ PlayerFrame
    /\ UNCHANGED clock

\* the 1 s timer of onError fires: up to the await of unloadAsync
RetryTimeoutFires(timer) ==
    /\ timer \in Due("retry")
    /\ CommitWorld(Suspend(Fired(timer), [kind |-> "reload", at |-> clock, url |-> timer.url,
                                          errorType |-> timer.errorType]))
    /\ PlayerFrame
    /\ UNCHANGED clock

\* unloadAsync, loadAsync and playAsync resolved
ReloadDone(task) ==
    /\ task \in Suspended("reload")
    /\ CommitWorld(Resumed(task))
    /\ PlayerFrame
    /\ UNCHANGED clock

\* one of unloadAsync, loadAsync and playAsync rejected
ReloadFailed(task) ==
    /\ task \in Suspended("reload")
    /\ Len(videoErrors) < MaxVideoErrors
    /\ CommitWorld(handleVideoError(Resumed(task), task.errorType, task.url))
    /\ PlayerFrame
    /\ UNCHANGED clock

NextRetry ==
    \/ \E errorType \in {"network", "other"} : OnError(errorType)
    \/ \E timer \in timers : RetryTimeoutFires(timer)
    \/ \E task \in tasks : ReloadDone(task)
    \/ \E task \in tasks : ReloadFailed(task)
    \/ \E task \in tasks : SetDetailDone(task)
    \/ \E task \in tasks : SetDetailFailed(task)
    \/ \E index \in 0..(MaxEpisodes - 1) : PlayEpisode(index)
    \/ \E task \in tasks : ReplayDone(task)
    \/ clock < Epoch + TickStep /\ PlayerTick

SpecRetry == InitPlayback /\ [][NextRetry]_vars

RetryTimers == {t \in timers : t.kind = "retry"}

\* the onError calls for the URL of call i that came before it, since the
\* last of them that handed over to handleVideoError
PriorErrors(i) ==
    LET same == {j \in 1..(i - 1) : onErrors[j].url = onErrors[i].url}
        handed == {j \in same : ~onErrors[j].retried}
    IN  Cardinality({j \in same : \A h \in handed : j > h})

\* C38: at most one retry timer of onError is pending, and of the errors
\* reported for one episode URL the first and the second schedule a reload
\* and the third hands over to handleVideoError, after which the count for
\* that URL starts again.
C38_TwoRetriesThenFailover ==
    /\ Cardinality(RetryTimers) <= 1
    /\ \A i \in 1..Len(onErrors) : onErrors[i].retried <=> PriorErrors(i) < MaxRetries

\* a title whose second source lists one episode fewer than the first
UnevenResults ==
    <<SearchResult("s1", 1, "t1", MaxEpisodes, R720p, Unmeasured, Unmeasured),
      SearchResult("s2", 1, "t1", MaxEpisodes - 1, R720p, Unmeasured, Unmeasured)>>

InitRange == PlaybackStoresOf(UnevenResults) /\ player = PlayingPlayer

RangeInputs ==
    {PlaybackStatus(FALSE, TRUE, FALSE, FALSE, 0, 0, FALSE),
     LoadedStatus(TRUE, FALSE, 60000, 60000, TRUE)}

\* loadVideo, playEpisode, handleVideoError, the advance at the end of an
\* episode, and reset; every episodeIndex is one the first source lists
NextRange ==
    \/ \E newStatus \in RangeInputs : StatusUpdate(newStatus)
    \/ \E task \in tasks : SetDetailDone(task)
    \/ \E task \in tasks : SetDetailFailed(task)
    \/ \E index \in 0..(MaxEpisodes - 1) : PlayEpisode(index)
    \/ \E task \in tasks : ReplayDone(task)
    \/ \E index \in 0..(MaxEpisodes - 1) : loadVideo(detail.source, index, 0, q)
    \/ \E k \in ProbeCalls : ProbeResponds(k, 200)
    \/ \E call \in tasks : LoadVideoProbed(call)
    \/ \E call \in tasks, record \in StoredRecords : LoadVideoStored(call, record)
    \/ reset

SpecRange == InitRange /\ [][NextRange]_vars

\* C40: whenever episodes is not empty, currentEpisodeIndex is the index of
\* one of its elements.
C40_IndexInRange ==
    Len(player.episodes) > 0 => HasIndex(player.episodes, player.currentEpisodeIndex)

====
